---- MODULE Spec2Model ----
(***************************************************************************)
(* A model of the secure real-time synchronisation core of the client:     *)
(*   - SocketService (src/src/shared/services/socketService.ts), the       *)
(*     connection manager, under SpecConn;                                 *)
(*   - the key-pair initialisation of ConversationScreen                   *)
(*     (src/docs/sqlite_community_schema.sql, lines 74-107), under SpecKey;*)
(*   - SQLiteService (src/src/shared/services/SQLiteService.ts), its       *)
(*     calls in any order, under SpecCache;                                *)
(*   - the three paths that write a post into it (handlePost, the          *)
(*     real-time handlers, the background sync task), under SpecSync;      *)
(*   - EncryptionService (src/unnamed/part_003): key agreement, encrypt    *)
(*     and decrypt down to the Base64 and typed-array calls they make,     *)
(*     under SpecCrypt.                                                    *)
(* Timers are abstracted from their delays: a pending timer may fire at    *)
(* any later step.  The socket.io transport is the environment: while an   *)
(* attempt is outstanding it either connects or reports connect_error.     *)
(***************************************************************************)
EXTENDS Integers, Sequences, FiniteSets, TLC

\* ------------------------------------------------------------------ bounds
\* connect_error events counted by reconnectAttempts before the model stops
\* delivering them
MaxErrors == 6
\* reconnect timers pending at once
MaxTimers == 1
\* key pairs generated before the model stops generating
MaxKeys == 3
\* calls of encrypt whose iv is kept
MaxEncrypts == 2

\* -------------------------------------------------------- program constants
\* socketService.ts:15
maxReconnectAttempts == 5
\* socketService.ts:48, reconnectionAttempts: this.maxReconnectAttempts
reconnectionAttempts == maxReconnectAttempts

\* the identity the app is logged in with (state.auth.address) and a peer
LocalId == "me"
Senders == {"me", "peer"}
\* chat ids and community ids the callers use
ChatIds == {"chat1"}
CommunityIds == {"c1"}
\* socketService.ts:401, const roomId = `community_${communityId}`
CommunityRoom(c) == IF c = "c1" THEN "community_c1" ELSE "community_other"
Rooms == ChatIds \cup {CommunityRoom(c) : c \in CommunityIds}
ClientDisconnect == "io client disconnect"
LossReasons == {"transport close", "io server disconnect"}
\* inbound events: a plaintext message, an encrypted message (both arrive as
\* "new_message"), a community post
InboundKinds == {"new_message", "new_message_encrypted", "community_post_received"}
\* socketService.ts:249, state.auth.address
AuthAddress == LocalId

VARIABLES
    \* ---- SocketService fields (socketService.ts:10-16)
    socket,             \* "null" or "socket": this.socket
    userId,             \* "null" or the identity
    activeRooms,
    _isConnected,
    reconnectAttempts,
    isPersistent,
    \* ---- the socket.io socket that this.socket refers to
    sockConnected,      \* socket.connected
    attempting,         \* a connection attempt is outstanding
    libRetries,         \* reconnection attempts the library has used
    transports,         \* socket.io.opts.transports
    subscribed,         \* a subscribeToEvent handler is registered on it
    finalAttempts,      \* times line 104, socket.connect(), ran for it
    \* ---- closures created by initSocket
    reconnTimers,       \* pending setTimeout(initSocket, 2000) of line 285
    \* One call of initSocket is watched, any one: its promise and its timers.
    \* The closures of the other calls touch nothing but their own promise.
    watch,              \* "none", "current" (its socket is this.socket), "old"
    prom,               \* "none", "pending", "true", "false"
    initTimer,          \* its 10 s timer is pending (line 130)
    finalTimers,        \* its pending 5 s timers (line 107)
    \* ---- observation
    last,               \* what the last step did
    lost,               \* the transport was lost and has not come back yet
    roomsAtLoss,        \* activeRooms when it was lost
    paused,             \* a pause found a connection, and what followed it
    promAtStep          \* how the watched promise was settled by the last step

connVars == <<socket, userId, activeRooms, _isConnected, reconnectAttempts,
              isPersistent, sockConnected, attempting, libRetries, transports,
              subscribed, finalAttempts, reconnTimers, watch, prom, initTimer,
              finalTimers, last, lost, roomsAtLoss, paused, promAtStep>>

VARIABLES
    \* ---- ConversationScreen.initializeSeekerKeyPair and SecureStore
    secureStore,        \* the secret key stored under keyStoreId, 0: none
    keyWrites,          \* every key setItemAsync has stored under keyStoreId
    keyPc,              \* where each run of initializeSeekerKeyPair stands
    keyPair,            \* its local keyPair, 0: none
    seekerX25519KeyPair,\* the state it sets, 0: null
    nextKey,            \* keys generated so far; a generated key is new
    secureSend          \* per screen, its last handleSendMessage: 0 none,
                        \* -1 refused, k the key pair the secret came from

keyVars == <<secureStore, keyWrites, keyPc, keyPair, seekerX25519KeyPair, nextKey,
             secureSend>>

VARIABLES
    \* ---- SQLiteService and the database it opens
    db,                 \* "null" or "open": SQLiteService.db
    foreignKeys,        \* whether the opened database enforces foreign keys
    communities,        \* the rows of table communities, in rowid order
    community_posts,    \* the rows of table community_posts, in rowid order
    lastSql,            \* what the last statement of SQLiteService did
    clearPc,            \* "idle", or "communities": clearAllData has deleted
                        \* the posts and its second statement is to come
    \* ---- the write paths of a post and the background task
    onServer,           \* the posts the relay server holds
    applied,            \* per post, the write paths that have stored it
    undeclaredRead,     \* what reading the undeclared name of line 41 does
    syncPc,             \* "idle", "fetch", "items": where the task stands
    syncComms,          \* the communities the task has still to fetch
    missedPosts,        \* the items of the current community still to store
    batch,              \* the items the last fetch returned
    run                 \* the member communities when the task started, and
                        \* the communities it has requested since

cacheVars == <<db, foreignKeys, communities, community_posts, lastSql, clearPc>>
syncVars == <<onServer, applied, undeclaredRead, syncPc, syncComms, missedPosts,
              batch, run>>

VARIABLES
    \* ---- EncryptionService
    runtime,            \* which globals js-base64 finds: "unset" until used
    agreed,             \* the last two key pairs and the secrets they derived
    sealed,             \* the last encrypt: secret, payload, what it returned
    opened,             \* the last decrypt: secret, envelope changed or not,
                        \* what it returned
    drawn               \* per encrypt so far, the secret, the bytes
                        \* getRandomBytes returned and the iv of the envelope

cryptVars == <<runtime, agreed, sealed, opened, drawn>>

VARIABLES
    \* ---- the callers of SQLiteService.initDb and the database's queue
    initPc,             \* per caller, where its initDb() stands: "idle",
                        \* "mkdir" (awaiting makeDirectoryAsync), "schema"
                        \* (awaiting its transaction), "resolved", "rejected"
    schema,             \* "none" or "created": the tables of the database
    txQueue,            \* the transactions handed to the database, in order
    ran,                \* the last transaction the database ran
    \* ---- the feed routes of the server
    serverPosts,        \* the array posts
    likes,              \* the array likes
    reposts,            \* the array reposts
    response            \* the last request and the response to it

initVars == <<initPc, schema, txQueue, ran>>
feedVars == <<serverPosts, likes, reposts, response>>

vars == <<connVars, keyVars, cacheVars, syncVars, cryptVars, initVars, feedVars>>

\* a step of the socket service leaves the rest alone
ConnOnly == UNCHANGED <<keyVars, cacheVars, syncVars, cryptVars, initVars, feedVars>>

\* one emitted message
Msg(ev, arg) == [ev |-> ev, arg |-> arg]
\* what the last step did, as seen from outside: the operation, the messages
\* it emitted in order, what the caller got back, for a "connect" whether
\* it followed a loss and the membership held at that loss, for a pause or a
\* send the membership it started from and whether the pause found a
\* connection, for an inbound event who sent it and where the handlers put
\* it, for a join, a leave or a send the room the caller named, for a
\* "connect" whether it followed a pause and a resume and the membership the
\* pause found
Last(op, emit, ret, afterLoss, rooms) ==
    [op |-> op, emit |-> emit, ret |-> ret, afterLoss |-> afterLoss,
     rooms |-> rooms, acted |-> FALSE, sender |-> "none", sinks |-> {},
     room |-> "none", afterPause |-> FALSE, pauseRooms |-> {}]
\* no pause is being followed
NotPaused == [phase |-> "none", rooms |-> {}]
Did(op, emit, ret) == Last(op, emit, ret, FALSE, {})
\* a call that names a room and starts from a membership
Called(op, emit, ret, room, rooms) ==
    [Did(op, emit, ret) EXCEPT !.room = room, !.rooms = rooms]
NoSettle == [res |-> "none", attempts |-> 0, conn |-> FALSE, by |-> "none"]

\* socketService.ts:312, 343, 382, 397, 413, 429: this.socket && this.socket.connected
SocketReady == socket # "null" /\ sockConnected

\* ------------------------------------------------------------ pure helpers
\* socketService.ts:311-325 joinChat: what it emits and the membership after
joinChatEmit(rooms, r, ready) ==
    IF ~ready THEN <<>>
    ELSE IF r \in rooms THEN <<>>
    ELSE <<Msg("join_chat", r)>>

joinChatRooms(rooms, r, ready) ==
    IF ready /\ r \notin rooms THEN rooms \cup {r} ELSE rooms

\* socketService.ts:68-73: activeRooms.forEach(roomId => this.joinChat(roomId))
RECURSIVE ReplayEmit(_, _)
ReplayEmit(todo, rooms) ==
    IF todo = {} THEN <<>>
    ELSE LET r == CHOOSE x \in todo : TRUE
         IN  joinChatEmit(rooms, r, TRUE)
               \o ReplayEmit(todo \ {r}, joinChatRooms(rooms, r, TRUE))

\* an authenticate that emits nothing
authenticateEmitNothing(u, ready) == <<>>

\* socketService.ts:301-308 authenticate
authenticateEmit(u, ready) ==
    IF ~ready THEN <<>> ELSE <<Msg("authenticate", u)>>

\* what is recorded when resolve(v) reaches the watched promise
Settled(v, by, conn) ==
    IF prom = "pending"
    THEN [res |-> v, attempts |-> reconnectAttempts, conn |-> conn, by |-> by]
    ELSE NoSettle

\* the disconnect handler, had it scheduled a reconnect for every reason
DisconnectTimersAnyReason(reason, timers) ==
    IF isPersistent /\ userId # "null" THEN timers + 1 ELSE timers

\* socketService.ts:275-290 the disconnect handler: the timers pending after it
DisconnectTimers(reason, timers) ==
    IF reason # ClientDisconnect /\ isPersistent /\ userId # "null"
    THEN timers + 1 ELSE timers

\* ---------------------------------------------------------------- Init
\* the runs of initializeSeekerKeyPair that may be in progress at once
Callers == {"a", "b"}

InitKey ==
    /\ secureStore = 0
    /\ keyWrites = {}
    /\ keyPc = [c \in Callers |-> "idle"]
    /\ keyPair = [c \in Callers |-> 0]
    /\ seekerX25519KeyPair = [c \in Callers |-> 0]
    /\ nextKey = 0
    /\ secureSend = [c \in Callers |-> 0]

\* the posts, their authors and their community
PostIds == {"p1", "p2"}
Author(p) == IF p = "p1" THEN LocalId ELSE "peer"
NoRow == [id |-> "none"]
WritePaths == {"optimistic", "push", "sync"}

\* SQLiteService.ts:37 db = null; the tables are created empty (lines 59-103).
\* The code never sets PRAGMA foreign_keys: the SQLite build decides when
\* the database is opened.
InitCache ==
    /\ db = "null"
    /\ foreignKeys = "unset"
    /\ communities = <<>>
    /\ community_posts = <<>>
    /\ lastSql = [op |-> "none", ok |-> TRUE, row |-> NoRow, old |-> NoRow, size |-> 0]
    /\ clearPc = "idle"

\* BackgroundSyncTask.ts:41 reads currentSeekerPublicKeyBase558, a name the
\* file never declares: the read throws a ReferenceError, unless the build
\* binds the name to the value of line 40; settled when the task first runs
InitSync ==
    /\ onServer = {}
    /\ applied = [p \in PostIds |-> {}]
    /\ undeclaredRead = "unset"
    /\ syncPc = "idle"
    /\ syncComms = <<>>
    /\ missedPosts = <<>>
    /\ batch = <<>>
    /\ run = [members |-> {}, requested |-> {}]

\* EncryptionService has no state; nothing was derived, sealed or opened
NotCalled ==
    [ok |-> FALSE, error |-> "notCalled", plain |-> <<>>,
     iv |-> [t |-> "base64", v |-> <<>>],
     ciphertext |-> [t |-> "base64", v |-> <<>>],
     tag |-> [t |-> "base64", v |-> <<>>]]
NotOpened == [secret |-> 0, tampered |-> FALSE, out |-> NotCalled]

\* the callers of initDb: BackgroundSyncTask.ts:38,
\* CommunityFeedScreen.tsx:54, CommunityListScreen.tsx:60
InitCallers == {"task", "feed", "list"}

NotRun == [kind |-> "none", by |-> "none", tables |-> FALSE]

InitInit ==
    /\ initPc = [c \in InitCallers |-> "idle"]
    /\ schema = "none"
    /\ txQueue = <<>>
    /\ ran = NotRun

\* the empty string as an author and as a signature: falsy
NoAuthor == [key |-> "", form |-> "string"]
NoSignature == [kind |-> "empty", by |-> "", msg |-> ""]

\* a request: the :postId of its path and the fields of its body (0 and the
\* empty values are what a missing field reads as)
Req(postId, author, content, signature, timestamp) ==
    [postId |-> postId, author |-> author, content |-> content,
     signature |-> signature, timestamp |-> timestamp]

NoReq == Req("", NoAuthor, "", NoSignature, 0)

\* a request and what the server answered
Response(route, status, req, client, body) ==
    [route |-> route, status |-> status, req |-> req, client |-> client,
     body |-> body]

NoRequest == Response("none", 0, NoReq, FALSE, <<>>)

\* feedRoutes.ts:29-31
InitFeed ==
    /\ serverPosts = <<>>
    /\ likes = <<>>
    /\ reposts = <<>>
    /\ response = NoRequest

InitCrypt ==
    /\ runtime = "unset"
    /\ agreed = [a |-> 0, b |-> 0, ab |-> 0, ba |-> 0]
    /\ sealed = [secret |-> 0, payload |-> <<>>, out |-> NotCalled]
    /\ opened = NotOpened
    /\ drawn = <<>>

InitConn ==
    /\ socket = "null"
    /\ userId = "null"
    /\ activeRooms = {}
    /\ _isConnected = FALSE
    /\ reconnectAttempts = 0
    /\ isPersistent = TRUE
    /\ sockConnected = FALSE
    /\ attempting = FALSE
    /\ libRetries = 0
    /\ transports = "websocket,polling"
    /\ subscribed = FALSE
    /\ finalAttempts = 0
    /\ reconnTimers = 0
    /\ watch = "none"
    /\ prom = "none"
    /\ initTimer = FALSE
    /\ finalTimers = 0
    /\ last = Did("init", <<>>, "void")
    /\ lost = FALSE
    /\ roomsAtLoss = {}
    /\ paused = NotPaused
    /\ promAtStep = NoSettle

\* ------------------------------------------------------------ initSocket
\* socketService.ts:19-137.  The body up to the registration of the handlers;
\* the handlers are the actions Connect, ConnectError, Disconnect and the
\* timers below.  timers: the reconnect timers pending when it is entered.
initSocket(u, op, timers) ==
    IF socket # "null" /\ _isConnected /\ userId = u
    THEN \* lines 21-25: resolve(true), nothing else
         /\ last' = Did(op, <<>>, "true")
         /\ paused' = paused
         /\ promAtStep' = NoSettle
         /\ reconnTimers' = timers
         /\ UNCHANGED <<socket, userId, activeRooms, _isConnected,
                        reconnectAttempts, isPersistent, sockConnected,
                        attempting, libRetries, transports, subscribed,
                        finalAttempts, watch, prom, initTimer, finalTimers,
                        lost, roomsAtLoss>>
    ELSE \* lines 27-29: the old socket is closed; if it was connected its
         \* disconnect handler runs with the reason "io client disconnect"
         /\ _isConnected' = IF SocketReady THEN FALSE ELSE _isConnected
         /\ reconnTimers' = IF SocketReady
                            THEN DisconnectTimers(ClientDisconnect, timers)
                            ELSE timers
         /\ userId' = u
         /\ reconnectAttempts' = 0
         \* lines 42-56: a new socket, autoConnect
         /\ socket' = "socket"
         /\ sockConnected' = FALSE
         /\ attempting' = TRUE
         /\ libRetries' = 0
         /\ transports' = "websocket,polling"
         /\ subscribed' = FALSE
         /\ finalAttempts' = 0
         /\ \/ /\ watch = "none"
               /\ watch' = "current"
               /\ prom' = "pending"
               /\ initTimer' = TRUE
               /\ finalTimers' = 0
            \/ /\ watch' = IF watch = "current" THEN "old" ELSE watch
               /\ UNCHANGED <<prom, initTimer, finalTimers>>
         /\ last' = Did(op, <<>>, "pending")
         /\ paused' = IF op = "resumeConnection" /\ paused.phase = "paused"
                       THEN [paused EXCEPT !.phase = "resumed"] ELSE paused
         /\ promAtStep' = NoSettle
         /\ UNCHANGED <<activeRooms, isPersistent, lost, roomsAtLoss>>

\* a caller connects: connect(identityId)
InitSocket == initSocket(LocalId, "initSocket", reconnTimers) /\ ConnOnly

\* socketService.ts:375-378 resumeConnection
ResumeConnection == initSocket(LocalId, "resumeConnection", reconnTimers) /\ ConnOnly

\* socketService.ts:285-287: the reconnect timer fires, this.initSocket(this.userId!)
ReconnectTimer ==
    /\ reconnTimers > 0
    /\ initSocket(userId, "reconnectTimer", reconnTimers - 1)
    /\ ConnOnly

\* ------------------------------------------------- handlers of the socket
\* the timers of a settled promise have no effect left: they are dropped
\* socketService.ts:61-76: the transport is established, "connect" fires
Connect ==
    /\ ConnOnly
    /\ socket # "null" /\ attempting /\ ~sockConnected
    /\ sockConnected' = TRUE
    /\ attempting' = FALSE
    /\ libRetries' = 0
    /\ _isConnected' = TRUE
    /\ activeRooms' = activeRooms
    /\ IF watch = "current"
       THEN /\ prom' = IF prom = "pending" THEN "true" ELSE prom
            /\ promAtStep' = Settled("true", "connect", TRUE)
            /\ initTimer' = FALSE
            /\ finalTimers' = 0
       ELSE /\ promAtStep' = NoSettle
            /\ UNCHANGED <<prom, initTimer, finalTimers>>
    /\ last' = [Last("connect",
                     authenticateEmit(userId, TRUE) \o ReplayEmit(activeRooms, activeRooms),
                     "void", lost, roomsAtLoss)
                EXCEPT !.afterPause = (paused.phase = "resumed"),
                       !.pauseRooms = IF paused.phase = "resumed" THEN paused.rooms ELSE {}]
    /\ paused' = NotPaused
    /\ lost' = FALSE
    /\ roomsAtLoss' = {}
    /\ UNCHANGED <<socket, userId, reconnectAttempts, isPersistent, transports,
                   subscribed, finalAttempts, reconnTimers, watch>>

\* socketService.ts:98: this.reconnectAttempts >= this.maxReconnectAttempts
CapReached(n) == n >= maxReconnectAttempts

\* socketService.ts:85-117: an attempt fails, "connect_error" fires.  The
\* library retries by itself reconnectionAttempts times (line 48); line 104,
\* socket.connect(), asks for an attempt.
ConnectError ==
    /\ ConnOnly
    /\ socket # "null" /\ attempting /\ ~sockConnected
    /\ reconnectAttempts < MaxErrors
    /\ _isConnected' = FALSE
    /\ reconnectAttempts' = reconnectAttempts + 1
    /\ libRetries' = IF libRetries < reconnectionAttempts THEN libRetries + 1 ELSE libRetries
    /\ IF CapReached(reconnectAttempts + 1)
       THEN /\ transports' = "polling"
            /\ attempting' = TRUE
            /\ finalAttempts' = finalAttempts + 1
            /\ finalTimers' = IF watch = "current" /\ prom = "pending"
                              THEN finalTimers + 1 ELSE finalTimers
       ELSE /\ attempting' = (libRetries < reconnectionAttempts)
            /\ UNCHANGED <<transports, finalAttempts, finalTimers>>
    /\ promAtStep' = NoSettle
    /\ last' = Did("connect_error", <<>>, "void")
    /\ UNCHANGED <<socket, userId, activeRooms, isPersistent, sockConnected,
                   subscribed, reconnTimers, watch, prom, initTimer, lost,
                   roomsAtLoss, paused>>

\* a disconnect handler that forgets the rooms
disconnectRoomsCleared(rooms, reason) == {}

\* socketService.ts:279: the disconnect handler leaves activeRooms alone
\* ("Don't clear active rooms on disconnect")
disconnectRooms(rooms, reason) == rooms

\* socketService.ts:275-290: the transport is lost, "disconnect" fires with a
\* reason other than "io client disconnect"
Disconnect ==
    \E reason \in LossReasons :
        /\ ConnOnly
        /\ SocketReady
        /\ DisconnectTimers(reason, reconnTimers) <= MaxTimers
        /\ sockConnected' = FALSE
        /\ _isConnected' = FALSE
        /\ reconnTimers' = DisconnectTimers(reason, reconnTimers)
        \* the library reconnects by itself unless the server closed the socket
        /\ attempting' = (reason # "io server disconnect")
        /\ libRetries' = IF reason # "io server disconnect" THEN 1 ELSE 0
        /\ lost' = TRUE
        /\ roomsAtLoss' = activeRooms
        /\ promAtStep' = NoSettle
        /\ last' = Did("disconnect", <<>>, "void")
        /\ activeRooms' = disconnectRooms(activeRooms, reason)
        /\ UNCHANGED <<socket, userId, reconnectAttempts,
                       isPersistent, transports, subscribed, finalAttempts,
                       watch, prom, initTimer, finalTimers, paused>>

\* the test of the timers, had they resolved false whatever the flag
TimeoutResolvesAlways == TRUE

\* socketService.ts:131-134 and 108-111: if (!this._isConnected) resolve(false)
TimeoutResolves == ~_isConnected

\* socketService.ts:130-135: the 10 s timer of the watched call
InitTimeout ==
    /\ ConnOnly
    /\ initTimer
    /\ initTimer' = FALSE
    /\ finalTimers' = IF TimeoutResolves THEN 0 ELSE finalTimers
    /\ prom' = IF TimeoutResolves /\ prom = "pending" THEN "false" ELSE prom
    /\ promAtStep' = IF TimeoutResolves
                     THEN Settled("false", "initTimeout", _isConnected)
                     ELSE NoSettle
    /\ last' = Did("initTimeout", <<>>, "void")
    /\ UNCHANGED <<socket, userId, activeRooms, _isConnected,
                   reconnectAttempts, isPersistent, sockConnected, attempting,
                   libRetries, transports, subscribed, finalAttempts,
                   reconnTimers, watch, lost, roomsAtLoss, paused>>

\* socketService.ts:107-112: a 5 s timer of a final attempt of the watched call
FinalTimeout ==
    /\ ConnOnly
    /\ finalTimers > 0
    /\ finalTimers' = IF TimeoutResolves THEN 0 ELSE finalTimers - 1
    /\ initTimer' = IF TimeoutResolves THEN FALSE ELSE initTimer
    /\ prom' = IF TimeoutResolves /\ prom = "pending" THEN "false" ELSE prom
    /\ promAtStep' = IF TimeoutResolves
                     THEN Settled("false", "finalTimeout", _isConnected)
                     ELSE NoSettle
    /\ last' = Did("finalTimeout", <<>>, "void")
    /\ UNCHANGED <<socket, userId, activeRooms, _isConnected,
                   reconnectAttempts, isPersistent, sockConnected, attempting,
                   libRetries, transports, subscribed, finalAttempts,
                   reconnTimers, watch, lost, roomsAtLoss, paused>>

\* ------------------------------------------------------ the public calls
\* what a public call leaves alone: everything but the membership, the
\* observation of the step and what the call itself names
CallFrame ==
    /\ promAtStep' = NoSettle
    /\ ConnOnly
    /\ UNCHANGED <<socket, userId, _isConnected, reconnectAttempts,
                   sockConnected, attempting, libRetries, transports,
                   reconnTimers, watch, prom, initTimer, finalTimers, finalAttempts,
                   lost, roomsAtLoss, paused>>

\* socketService.ts:311-325
JoinChat ==
    \E r \in ChatIds :
        /\ activeRooms' = joinChatRooms(activeRooms, r, SocketReady)
        /\ last' = Called("joinChat", joinChatEmit(activeRooms, r, SocketReady),
                           "void", r, activeRooms)
        /\ CallFrame
        /\ UNCHANGED <<isPersistent, subscribed>>

\* socketService.ts:342-356 leaveChat: what it emits and the membership after
leaveChatEmit(rooms, r, ready) ==
    IF ~ready THEN <<>>
    ELSE IF r \notin rooms THEN <<>>
    ELSE <<Msg("leave_chat", r)>>

leaveChatRooms(rooms, r, ready) ==
    IF ready /\ r \in rooms THEN rooms \ {r} ELSE rooms

LeaveChat ==
    \E r \in ChatIds :
        /\ activeRooms' = leaveChatRooms(activeRooms, r, SocketReady)
        /\ last' = Called("leaveChat", leaveChatEmit(activeRooms, r, SocketReady),
                           "void", r, activeRooms)
        /\ CallFrame
        /\ UNCHANGED <<isPersistent, subscribed>>

\* joinCommunityFeed, had it emitted without looking at activeRooms
joinCommunityEmitAgain(rooms, c, ready) ==
    IF ~ready THEN <<>> ELSE <<Msg("join_community", CommunityRoom(c))>>

\* socketService.ts:396-409 joinCommunityFeed
joinCommunityEmit(rooms, c, ready) ==
    IF ~ready THEN <<>>
    ELSE IF CommunityRoom(c) \in rooms THEN <<>>
    ELSE <<Msg("join_community", CommunityRoom(c))>>

joinCommunityRooms(rooms, c, ready) ==
    IF ready /\ CommunityRoom(c) \notin rooms
    THEN rooms \cup {CommunityRoom(c)} ELSE rooms

JoinCommunityFeed ==
    \E c \in CommunityIds :
        /\ activeRooms' = joinCommunityRooms(activeRooms, c, SocketReady)
        /\ last' = Called("joinCommunityFeed",
                           joinCommunityEmit(activeRooms, c, SocketReady),
                           "void", CommunityRoom(c), activeRooms)
        /\ CallFrame
        /\ UNCHANGED <<isPersistent, subscribed>>

\* socketService.ts:412-425 leaveCommunityFeed
leaveCommunityEmit(rooms, c, ready) ==
    IF ~ready THEN <<>>
    ELSE IF CommunityRoom(c) \notin rooms THEN <<>>
    ELSE <<Msg("leave_community", CommunityRoom(c))>>

leaveCommunityRooms(rooms, c, ready) ==
    IF ready /\ CommunityRoom(c) \in rooms
    THEN rooms \ {CommunityRoom(c)} ELSE rooms

LeaveCommunityFeed ==
    \E c \in CommunityIds :
        /\ activeRooms' = leaveCommunityRooms(activeRooms, c, SocketReady)
        /\ last' = Called("leaveCommunityFeed",
                           leaveCommunityEmit(activeRooms, c, SocketReady),
                           "void", CommunityRoom(c), activeRooms)
        /\ CallFrame
        /\ UNCHANGED <<isPersistent, subscribed>>

\* socketService.ts:381-393 sendMessage: the function returns void on both
\* paths; what it emits, the membership after, what the caller gets back
sendMessageEmit(rooms, r, ready) ==
    IF ~ready THEN <<>>
    ELSE joinChatEmit(rooms, r, ready) \o <<Msg("send_message", r)>>

sendMessageRooms(rooms, r, ready) ==
    IF ~ready THEN rooms ELSE joinChatRooms(rooms, r, ready)

sendMessageRet(ready) == "void"

SendMessage ==
    \E r \in ChatIds :
        /\ activeRooms' = sendMessageRooms(activeRooms, r, SocketReady)
        /\ last' = Called("sendMessage",
                           sendMessageEmit(activeRooms, r, SocketReady),
                           sendMessageRet(SocketReady), r, activeRooms)
        /\ CallFrame
        /\ UNCHANGED <<isPersistent, subscribed>>

\* socketService.ts:428-439 sendCommunityPost: warns when the room is not
\* joined and sends anyway
sendCommunityPostEmit(rooms, c, ready) ==
    IF ~ready THEN <<>>
    ELSE <<Msg("send_community_post", CommunityRoom(c))>>

sendCommunityPostRet(ready) == "void"

SendCommunityPost ==
    \E c \in CommunityIds :
        /\ activeRooms' = activeRooms
        /\ last' = Called("sendCommunityPost",
                           sendCommunityPostEmit(activeRooms, c, SocketReady),
                           sendCommunityPostRet(SocketReady), CommunityRoom(c),
                           activeRooms)
        /\ CallFrame
        /\ UNCHANGED <<isPersistent, subscribed>>

\* the membership after pauseConnection, had it kept the rooms
pauseRoomsKept(rooms, acts) == rooms

\* socketService.ts:364-372 pauseConnection: the membership after it
pauseRooms(rooms, acts) == IF acts THEN {} ELSE rooms

\* socketService.ts:365: this.socket && this._isConnected
PauseActs == socket # "null" /\ _isConnected

pauseConnection(op) ==
    /\ ConnOnly
    /\ activeRooms' = pauseRooms(activeRooms, PauseActs)
    \* line 369: socket.disconnect() closes the socket and its manager; a
    \* connected socket fires "disconnect" with "io client disconnect"
    /\ sockConnected' = IF PauseActs THEN FALSE ELSE sockConnected
    /\ attempting' = IF PauseActs THEN FALSE ELSE attempting
    /\ reconnTimers' = IF PauseActs /\ sockConnected
                       THEN DisconnectTimers(ClientDisconnect, reconnTimers)
                       ELSE reconnTimers
    /\ _isConnected' = IF PauseActs THEN FALSE ELSE _isConnected
    /\ last' = [Did(op, <<>>, "void") EXCEPT !.rooms = activeRooms,
                                             !.acted = PauseActs]
    /\ promAtStep' = NoSettle
    /\ UNCHANGED <<socket, userId, reconnectAttempts, isPersistent, libRetries,
                   transports, subscribed, watch, prom, initTimer,
                   finalTimers, finalAttempts, lost, roomsAtLoss>>
    /\ paused' = IF PauseActs THEN [phase |-> "paused", rooms |-> activeRooms]
                  ELSE paused

PauseConnection == pauseConnection("pauseConnection")

\* socketService.ts:359-361
SetPersistentMode ==
    \E b \in BOOLEAN :
        /\ isPersistent' = b
        /\ last' = Did("setPersistentMode", <<>>, "void")
        /\ CallFrame
        /\ UNCHANGED <<activeRooms, subscribed>>

\* socketService.ts:449-456 disconnect()
DisconnectRequest ==
    IF isPersistent
    THEN /\ last' = Did("disconnectRequest", <<>>, "void")
         /\ CallFrame
         /\ UNCHANGED <<activeRooms, isPersistent, subscribed>>
    ELSE pauseConnection("disconnectRequest")

\* socketService.ts:473-481 subscribeToEvent, as CommunityFeedScreen.tsx:153
\* calls it: socket.on('community_post_received', handleCommunityPostReceived)
SubscribeToEvent ==
    /\ subscribed' = IF socket # "null" THEN TRUE ELSE subscribed
    /\ last' = Did("subscribeToEvent", <<>>, "void")
    /\ CallFrame
    /\ UNCHANGED <<activeRooms, isPersistent>>

\* socketService.ts:483-491 unsubscribeFromEvent (CommunityFeedScreen.tsx:158)
UnsubscribeFromEvent ==
    /\ subscribed' = IF socket # "null" THEN FALSE ELSE subscribed
    /\ last' = Did("unsubscribeFromEvent", <<>>, "void")
    /\ CallFrame
    /\ UNCHANGED <<activeRooms, isPersistent>>

\* socketService.ts:149-192 the new_message handler: where the event goes
newMessageSinks(encrypted, sender, uid) ==
    IF encrypted THEN {"store"}
    ELSE IF sender = uid THEN {}
    ELSE {"store"}

\* socketService.ts:237-266 the community_post_received handler
communityPostSinks(author) ==
    IF author = AuthAddress THEN {} ELSE {"cache"}

\* CommunityFeedScreen.tsx:138-151 handleCommunityPostReceived, the handler
\* registered through subscribeToEvent: it gets the event as the socket
\* delivers it and upserts the post
subscriberSinks(kind, subs) ==
    IF subs /\ kind = "community_post_received"
    THEN {"subscriber", "cache"} ELSE {}

InboundSinks(kind, sender, uid, subs) ==
    (IF kind = "community_post_received"
     THEN communityPostSinks(sender)
     ELSE newMessageSinks(kind = "new_message_encrypted", sender, uid))
    \cup subscriberSinks(kind, subs)

\* socketService.ts:144-146 the "authenticated" handler: the server answers
\* the authenticate message; the handler logs data.success and reads nothing
authenticatedConnected(success, conn) == conn

Authenticated ==
    \E success \in BOOLEAN :
        /\ SocketReady
        /\ _isConnected' = authenticatedConnected(success, _isConnected)
        /\ last' = Did("authenticated", <<>>, IF success THEN "success" ELSE "failure")
        /\ promAtStep' = NoSettle
        /\ ConnOnly
        /\ UNCHANGED <<socket, userId, activeRooms, reconnectAttempts,
                       isPersistent, sockConnected, attempting, libRetries,
                       transports, subscribed, finalAttempts, reconnTimers,
                       watch, prom, initTimer, finalTimers, lost, roomsAtLoss,
                       paused>>

\* the server delivers an event to the connected socket
Inbound ==
    \E kind \in InboundKinds, sender \in Senders :
        /\ SocketReady
        /\ last' = [Did(kind, <<>>, "void") EXCEPT
                        !.sender = sender,
                        !.sinks = InboundSinks(kind, sender, userId, subscribed)]
        /\ CallFrame
        /\ UNCHANGED <<activeRooms, isPersistent, subscribed>>

NextConn ==
    \/ InitSocket
    \/ ResumeConnection
    \/ ReconnectTimer
    \/ Connect
    \/ ConnectError
    \/ Disconnect
    \/ InitTimeout
    \/ FinalTimeout
    \/ JoinChat
    \/ LeaveChat
    \/ JoinCommunityFeed
    \/ LeaveCommunityFeed
    \/ SendMessage
    \/ SendCommunityPost
    \/ PauseConnection
    \/ SubscribeToEvent
    \/ UnsubscribeFromEvent
    \/ Authenticated
    \/ Inbound
    \/ SetPersistentMode
    \/ DisconnectRequest

Init == InitConn /\ InitKey /\ InitCache /\ InitSync /\ InitCrypt /\ InitInit /\ InitFeed

SpecConn == Init /\ [][NextConn]_vars

\* =============================================== the agreement key pair
\* docs/sqlite_community_schema.sql:74-107 initializeSeekerKeyPair, run by the
\* effect of ConversationScreen for the one wallet public key; each await is a
\* point at which another run may take a step
KeyOnly == UNCHANGED <<connVars, cacheVars, syncVars, cryptVars, initVars, feedVars>>

\* line 78-83: the run starts and awaits SecureStore.getItemAsync(keyStoreId)
KeyStart(c) ==
    /\ keyPc[c] = "idle"
    /\ keyPc' = [keyPc EXCEPT ![c] = "reading"]
    /\ UNCHANGED <<secureStore, keyWrites, keyPair, seekerX25519KeyPair, nextKey,
                   secureSend>>
    /\ KeyOnly

\* EncryptionService.generateX25519KeyPair (unnamed/part_003:13-15): a key
\* pair no one has had before
generateX25519KeyPair(n) == n + 1

\* lines 83-96: getItemAsync answers.  A stored key is loaded and set (lines
\* 86-90, 97); without one a key pair is generated and setItemAsync awaited
KeyRead(c) ==
    /\ keyPc[c] = "reading"
    /\ IF secureStore # 0
       THEN /\ keyPair' = [keyPair EXCEPT ![c] = secureStore]
            /\ seekerX25519KeyPair' = [seekerX25519KeyPair EXCEPT ![c] = secureStore]
            /\ keyPc' = [keyPc EXCEPT ![c] = "done"]
            /\ UNCHANGED nextKey
       ELSE /\ nextKey < MaxKeys
            /\ keyPair' = [keyPair EXCEPT ![c] = generateX25519KeyPair(nextKey)]
            /\ nextKey' = nextKey + 1
            /\ keyPc' = [keyPc EXCEPT ![c] = "writing"]
            /\ UNCHANGED seekerX25519KeyPair
    /\ UNCHANGED <<secureStore, keyWrites, secureSend>>
    /\ KeyOnly

\* lines 94-97: setItemAsync stores the key, then setSeekerX25519KeyPair(keyPair)
KeyWrite(c) ==
    /\ keyPc[c] = "writing"
    /\ secureStore' = keyPair[c]
    /\ keyWrites' = keyWrites \cup {keyPair[c]}
    /\ seekerX25519KeyPair' = [seekerX25519KeyPair EXCEPT ![c] = keyPair[c]]
    /\ keyPc' = [keyPc EXCEPT ![c] = "done"]
    /\ UNCHANGED <<keyPair, nextKey, secureSend>>
    /\ KeyOnly

\* the catch, had it kept the key pair that was generated
keyAfterFailureEphemeral(state, generated) == generated

\* lines 98-101: the catch logs and shows an alert; setSeekerX25519KeyPair of
\* line 97 was not reached and the state is what it was
keyAfterFailure(state, generated) == state

\* lines 98-101: getItemAsync or setItemAsync rejects; the catch shows an
\* alert and the state keeps its null
KeyStoreFails(c) ==
    /\ keyPc[c] \in {"reading", "writing"}
    /\ keyPc' = [keyPc EXCEPT ![c] = "failed"]
    /\ seekerX25519KeyPair' = [seekerX25519KeyPair EXCEPT
                                   ![c] = keyAfterFailure(@, keyPair[c])]
    /\ UNCHANGED <<secureStore, keyWrites, keyPair, nextKey, secureSend>>
    /\ KeyOnly

\* lines 110-146 deriveSecret: the effect sets sharedSecret to null without a
\* key pair (lines 112-115), and otherwise to the secret derived from the
\* key pair; 0 stands for null, k for a secret derived from key pair k
deriveSecret(kp) == kp

\* lines 149-168 handleSendMessage: without a shared secret it shows "Secure
\* channel not established yet." and returns (lines 158-161); with one it
\* encrypts the message with it and sends the payload
handleSendMessage(kp) == IF deriveSecret(kp) = 0 THEN -1 ELSE deriveSecret(kp)

HandleSendMessage(c) ==
    /\ secureSend' = [secureSend EXCEPT ![c] = handleSendMessage(seekerX25519KeyPair[c])]
    /\ secureSend'[c] # secureSend[c]
    /\ UNCHANGED <<secureStore, keyWrites, keyPc, keyPair, seekerX25519KeyPair, nextKey>>
    /\ KeyOnly

\* line 67: the screen is mounted again, its state starts as null
KeyRemount(c) ==
    /\ keyPc[c] \in {"done", "failed"}
    /\ keyPc' = [keyPc EXCEPT ![c] = "idle"]
    /\ keyPair' = [keyPair EXCEPT ![c] = 0]
    /\ seekerX25519KeyPair' = [seekerX25519KeyPair EXCEPT ![c] = 0]
    /\ secureSend' = [secureSend EXCEPT ![c] = 0]
    /\ UNCHANGED <<secureStore, keyWrites, nextKey>>
    /\ KeyOnly

NextKey ==
    \/ \E c \in Callers : KeyStart(c)
    \/ \E c \in Callers : KeyRead(c)
    \/ \E c \in Callers : KeyWrite(c)
    \/ \E c \in Callers : KeyStoreFails(c)
    \/ \E c \in Callers : KeyRemount(c)
    \/ \E c \in Callers : HandleSendMessage(c)

SpecKey == Init /\ [][NextKey]_vars
\* ======================================================= SQLiteService
CacheOnly == UNCHANGED <<connVars, keyVars, syncVars, cryptVars, initVars, feedVars>>

\* what a statement did: the call, whether it succeeded, the row it wrote,
\* the row of that id before it, the rows the table had before it
Sql(op, ok, row, old, size) ==
    [op |-> op, ok |-> ok, row |-> row, old |-> old, size |-> size]

\* the values the callers pass.  The cache holds rows of the communities the
\* user has open and of one more; created_at and timestamp are milliseconds,
\* two instants of them; a post is stored with the engagement of a new post
\* (SQLiteService.ts:88-91, DEFAULT 0).  Post p1 is of community c1 and
\* written at either instant, post p2 is of either community and written at
\* the first; community c1 was created at either instant, c2 at the first.
CachedCommunityIds == CommunityIds \cup {"c2"}
Instants == {1, 2}
PostRecord(p, c, t) ==
    [id |-> p, community_id |-> c, author_public_key |-> Author(p),
     content |-> "text", signature |-> "sig", timestamp |-> t,
     likes_count |-> 0, reposts_count |-> 0, is_liked_by_me |-> 0,
     is_reposted_by_me |-> 0, author_name |-> "short", is_moderated |-> 0]
PostRecords ==
    {PostRecord("p1", "c1", t) : t \in Instants}
        \cup {PostRecord("p2", c, 1) : c \in CachedCommunityIds}
CommunityRecords ==
    {[id |-> "c1", name |-> "n1", created_at |-> t, is_member |-> m] :
        t \in Instants, m \in {0, 1}}
        \cup {[id |-> "c2", name |-> "n1", created_at |-> 1, is_member |-> m] :
                  m \in {0, 1}}

\* the rows of a table with the given id
RowsOf(rows, id) ==
    LET Has(x) == x.id = id IN SelectSeq(rows, Has)

RowOf(rows, id) ==
    IF RowsOf(rows, id) = <<>> THEN NoRow ELSE RowsOf(rows, id)[1]

\* INSERT without conflict resolution: the row is added
plainInsert(rows, r) == Append(rows, r)

\* SQLiteService.ts:173, 224 INSERT OR REPLACE: the rows that conflict on the
\* primary key are deleted, then the row is added
insertOrReplace(rows, r) ==
    LET Other(x) == x.id # r.id IN Append(SelectSeq(rows, Other), r)

\* SQLiteService.ts:94 FOREIGN KEY (community_id) REFERENCES communities (id):
\* an enforcing database rejects a post of a community it has no row for
ForeignKeyOk(comms, post) ==
    foreignKeys # "on" \/ RowsOf(comms, post.community_id) # <<>>

\* SQLiteService.ts:94 ON DELETE CASCADE: the posts left when the row of a
\* community is deleted
cascade(posts, cid) ==
    IF foreignKeys = "on"
    THEN LET Other(x) == x.community_id # cid IN SelectSeq(posts, Other)
    ELSE posts

\* SQLiteService.ts:94 ON DELETE CASCADE for a statement that deletes several
\* communities: the posts left when table communities goes from before to
\* after
cascadeRows(posts, before, after) ==
    LET Deleted(cid) == RowsOf(before, cid) # <<>> /\ RowsOf(after, cid) = <<>>
        Kept(x) == ~Deleted(x.community_id)
    IN  IF foreignKeys = "on" THEN SelectSeq(posts, Kept) ELSE posts

\* SQLiteService.ts:146-149 executeSql throws when db is null
DbOpen == db = "open"

\* SQLiteService.ts:42-138 initDb
initDb ==
    IF db = "open"
    THEN UNCHANGED <<db, foreignKeys>>
    ELSE /\ db' = "open"
         /\ \E fk \in {"on", "off"} : foreignKeys' = IF foreignKeys = "unset" THEN fk ELSE foreignKeys

InitDb ==
    /\ initDb
    /\ lastSql' = Sql("initDb", TRUE, NoRow, NoRow, 0)
    /\ UNCHANGED <<communities, community_posts, clearPc>>
    /\ CacheOnly

\* SQLiteService.ts:172-184 insertCommunity: the two tables after it
insertCommunityRows(comms, c) == insertOrReplace(comms, c)

insertCommunityPosts(comms, posts, c) ==
    IF RowsOf(comms, c.id) # <<>> THEN cascade(posts, c.id) ELSE posts

InsertCommunity ==
    \E c \in CommunityRecords :
        /\ IF DbOpen
           THEN /\ communities' = insertCommunityRows(communities, c)
                /\ community_posts' = insertCommunityPosts(communities, community_posts, c)
           ELSE UNCHANGED <<communities, community_posts>>
        /\ lastSql' = Sql("insertCommunity", DbOpen, c, RowOf(communities, c.id),
                          Len(communities))
        /\ UNCHANGED <<db, foreignKeys, clearPc>>
        /\ CacheOnly

\* SQLiteService.ts:223-240 insertCommunityPost: whether it succeeds, and the
\* table after it
insertCommunityPostOk(comms, post) == DbOpen /\ ForeignKeyOk(comms, post)

insertCommunityPost(comms, posts, post) ==
    IF insertCommunityPostOk(comms, post) THEN insertOrReplace(posts, post) ELSE posts

InsertCommunityPost ==
    \E post \in PostRecords :
        /\ community_posts' = insertCommunityPost(communities, community_posts, post)
        /\ lastSql' = Sql("insertCommunityPost",
                          insertCommunityPostOk(communities, post), post,
                          RowOf(community_posts, post.id), Len(community_posts))
        /\ UNCHANGED <<db, foreignKeys, communities, clearPc>>
        /\ CacheOnly

\* ORDER BY column DESC: the rows by falling value of the column; rows of one
\* value come in the order of the table
orderByDesc(rows, column) ==
    LET Before(i) == {j \in DOMAIN rows :
                         \/ rows[j][column] > rows[i][column]
                         \/ rows[j][column] = rows[i][column] /\ j < i}
    IN  [k \in DOMAIN rows |->
            rows[CHOOSE i \in DOMAIN rows : Cardinality(Before(i)) + 1 = k]]

\* the result set of a SELECT, as executeSql resolves it
SqlRows(op, arg, rows) ==
    [op |-> op, ok |-> TRUE, row |-> arg, old |-> NoRow, size |-> Len(rows),
     rows |-> rows]

\* SQLiteService.ts:190-194 getCommunities: SELECT * FROM communities ORDER
\* BY created_at DESC
getCommunities(comms) == orderByDesc(comms, "created_at")

GetCommunities ==
    /\ DbOpen
    /\ lastSql' = SqlRows("getCommunities", NoRow, getCommunities(communities))
    /\ UNCHANGED <<db, foreignKeys, communities, community_posts, clearPc>>
    /\ CacheOnly

\* a SELECT that leaves the WHERE clause out
getCommunityPostsOfAll(posts, communityId) == orderByDesc(posts, "timestamp")

\* SQLiteService.ts:247-251 getCommunityPosts: SELECT * FROM community_posts
\* WHERE community_id = ? ORDER BY timestamp DESC
getCommunityPosts(posts, communityId) ==
    LET Of(x) == x.community_id = communityId
    IN  orderByDesc(SelectSeq(posts, Of), "timestamp")

GetCommunityPosts ==
    \E c \in CachedCommunityIds :
        /\ DbOpen
        /\ lastSql' = SqlRows("getCommunityPosts", [id |-> c],
                              getCommunityPosts(community_posts, c))
        /\ UNCHANGED <<db, foreignKeys, communities, community_posts, clearPc>>
        /\ CacheOnly

\* SQLiteService.ts:212-215 updateCommunityMembership: an UPDATE ... WHERE
\* id = ? changes the rows of that id in place
updateCommunityMembership(rows, id, m) ==
    [i \in DOMAIN rows |->
        IF rows[i].id = id THEN [rows[i] EXCEPT !.is_member = m] ELSE rows[i]]

UpdateCommunityMembership ==
    \E c \in CachedCommunityIds, m \in {0, 1} :
        /\ DbOpen
        /\ communities' = updateCommunityMembership(communities, c, m)
        /\ lastSql' = Sql("updateCommunityMembership", TRUE, [id |-> c], NoRow,
                          Len(communities))
        /\ UNCHANGED <<db, foreignKeys, community_posts, clearPc>>
        /\ CacheOnly

\* SQLiteService.ts:261-270 updateCommunityPostEngagement: UPDATE
\* community_posts SET likes_count = ?, reposts_count = ?, is_liked_by_me = ?,
\* is_reposted_by_me = ? WHERE id = ?
updateCommunityPostEngagement(rows, postId, likesCount, repostsCount, isLikedByMe, isRepostedByMe) ==
    [i \in DOMAIN rows |->
        IF rows[i].id = postId
        THEN [rows[i] EXCEPT !.likes_count = likesCount,
                             !.reposts_count = repostsCount,
                             !.is_liked_by_me = isLikedByMe,
                             !.is_reposted_by_me = isRepostedByMe]
        ELSE rows[i]]

\* the counts and flags the callers pass: those of a new post, and those of
\* a post the user liked, which another member reposted
Engagements == {<<0, 0, 0, 0>>, <<2, 1, 1, 0>>}

UpdateCommunityPostEngagement ==
    \E p \in PostIds, e \in Engagements :
        /\ DbOpen
        /\ community_posts' =
               updateCommunityPostEngagement(community_posts, p, e[1], e[2], e[3], e[4])
        /\ lastSql' = Sql("updateCommunityPostEngagement", TRUE, [id |-> p], NoRow,
                          Len(community_posts))
        /\ UNCHANGED <<db, foreignKeys, communities, clearPc>>
        /\ CacheOnly

\* an UPDATE of is_moderated that leaves the WHERE clause out
updateCommunityPostModerationOfAll(rows, id, m) ==
    [i \in DOMAIN rows |-> [rows[i] EXCEPT !.is_moderated = m]]

\* SQLiteService.ts:277-280 updateCommunityPostModeration
updateCommunityPostModeration(rows, id, m) ==
    [i \in DOMAIN rows |->
        IF rows[i].id = id THEN [rows[i] EXCEPT !.is_moderated = m] ELSE rows[i]]

UpdateCommunityPostModeration ==
    \E p \in PostIds, m \in {0, 1} :
        /\ DbOpen
        /\ community_posts' = updateCommunityPostModeration(community_posts, p, m)
        /\ lastSql' = Sql("updateCommunityPostModeration", TRUE, [id |-> p], NoRow,
                          Len(community_posts))
        /\ UNCHANGED <<db, foreignKeys, communities, clearPc>>
        /\ CacheOnly

\* SQLiteService.ts:286-289 deleteCommunityPost
DeleteCommunityPost ==
    \E p \in PostIds :
        /\ DbOpen
        /\ LET Other(x) == x.id # p
           IN  community_posts' = SelectSeq(community_posts, Other)
        /\ lastSql' = Sql("deleteCommunityPost", TRUE, [id |-> p], NoRow,
                          Len(community_posts))
        /\ UNCHANGED <<db, foreignKeys, communities, clearPc>>
        /\ CacheOnly

\* SQLiteService.ts:297 DELETE FROM communities
clearCommunities(comms, posts) == <<>>

\* SQLiteService.ts:295-299 clearAllData, to the end of its first awaited
\* statement (line 296, DELETE FROM community_posts); other calls run before
\* the second
ClearAllData ==
    /\ DbOpen
    /\ clearPc = "idle"
    /\ community_posts' = <<>>
    /\ clearPc' = "communities"
    /\ lastSql' = Sql("clearAllData", TRUE, NoRow, NoRow, Len(community_posts))
    /\ UNCHANGED <<db, foreignKeys, communities>>
    /\ CacheOnly

\* SQLiteService.ts:297 the second awaited statement of clearAllData,
\* DELETE FROM communities; with foreign keys enforced it takes with it the
\* posts stored since the first statement (ON DELETE CASCADE, line 94)
ClearAllDataCommunities ==
    /\ clearPc = "communities"
    /\ communities' = clearCommunities(communities, community_posts)
    /\ community_posts' = cascadeRows(community_posts, communities, communities')
    /\ clearPc' = "idle"
    /\ lastSql' = Sql("clearAllData", TRUE, NoRow, NoRow, Len(communities))
    /\ UNCHANGED <<db, foreignKeys>>
    /\ CacheOnly

NextCache ==
    \/ InitDb
    \/ InsertCommunity
    \/ GetCommunities
    \/ GetCommunityPosts
    \/ InsertCommunityPost
    \/ UpdateCommunityMembership
    \/ UpdateCommunityPostEngagement
    \/ UpdateCommunityPostModeration
    \/ DeleteCommunityPost
    \/ ClearAllData
    \/ ClearAllDataCommunities

SpecCache == Init /\ [][NextCache]_vars

\* ===================================================== EncryptionService

\* the group in which the model does the key agreement: the powers of GroupG
\* modulo GroupP are 11 in number, as the points of Curve25519 a scalar
\* reaches are of prime order
GroupP == 23
GroupG == 2

\* base to the power e in the group
Pow(base, e) ==
    LET f[i \in 0..e] == IF i = 0 THEN 1 ELSE (f[i - 1] * base) % GroupP
    IN  f[e]

\* nacl.box.keyPair(): the secret and the public key of the n-th key pair
\* generated; the public key is the base point times the secret scalar
secretKey(n) == n + 1
publicKey(n) == Pow(GroupG, secretKey(n))

\* X25519 key agreement, the first half of nacl.box.before
x25519(sk, pk) == Pow(pk, sk)

\* HSalsa20, the second half of nacl.box.before: a fixed one-to-one mixing
hsalsa20(x) == (5 * x + 3) % GroupP

\* deriveSharedSecret, had it mixed the caller's own public key
deriveSharedSecretOwnKey(seekerPrivateKey, recipientPublicKey) ==
    hsalsa20(x25519(seekerPrivateKey, Pow(GroupG, seekerPrivateKey)))

\* unnamed/part_003:24-31 deriveSharedSecret: nacl.box.before(recipientPublicKey,
\* seekerPrivateKey)
deriveSharedSecret(seekerPrivateKey, recipientPublicKey) ==
    hsalsa20(x25519(seekerPrivateKey, recipientPublicKey))

\* the values of the script: a Uint8Array, a string of code points, and a
\* Base64 string, kept as the bytes it spells
Uint8Array(v) == [t |-> "Uint8Array", v |-> v]
String(v) == [t |-> "string", v |-> v]
Base64(v) == [t |-> "base64", v |-> v]

\* undefined + undefined, and what a length is when it is not a number
NaN == -1

\* the sum of the elements of a sequence of numbers
Sum(s) ==
    LET f[i \in 0..Len(s)] == IF i = 0 THEN 0 ELSE f[i - 1] + s[i]
    IN  f[Len(s)]

\* the decimal digits of a byte, as code points
Decimal(b) ==
    IF b < 10 THEN <<48 + b>>
    ELSE IF b < 100 THEN <<48 + (b \div 10), 48 + (b % 10)>>
    ELSE <<48 + (b \div 100), 48 + ((b \div 10) % 10), 48 + (b % 10)>>

\* String(uint8Array): Array.prototype.join, the decimal elements with commas
\* (code point 44) between them
joinBytes(v) ==
    LET f[i \in 0..Len(v)] ==
            IF i = 0 THEN <<>>
            ELSE IF i = 1 THEN Decimal(v[1])
            ELSE f[i - 1] \o <<44>> \o Decimal(v[i])
    IN  f[Len(v)]

\* UTF-8: the model's strings are ASCII, one byte per code point; a byte of
\* 128 or more that starts no sequence decodes to U+FFFD
utf8Encode(points) == points
utf8Decode(bytes) == [i \in DOMAIN bytes |-> IF bytes[i] < 128 THEN bytes[i] ELSE 65533]

\* the runtimes js-base64 tells apart: a global Buffer, else a global
\* TextEncoder / TextDecoder, else btoa / atob
Runtimes == {"buffer", "textEncoder", "btoa"}

\* js-base64 encode(src), which is written for a string src.  With Buffer it
\* is Buffer.from(src, 'utf8'), which copies a Uint8Array; with TextEncoder it
\* is TextEncoder.encode(src), which first turns src into a string; with
\* neither it is utob(src), which calls src.replace and throws on a Uint8Array
encode(src, rt) ==
    IF rt = "buffer"
    THEN Base64(IF src.t = "Uint8Array" THEN src.v ELSE utf8Encode(src.v))
    ELSE IF rt = "textEncoder"
    THEN Base64(utf8Encode(IF src.t = "Uint8Array" THEN joinBytes(src.v) ELSE src.v))
    ELSE IF src.t = "Uint8Array" THEN [t |-> "TypeError", v |-> <<>>]
    ELSE Base64(utf8Encode(src.v))

\* js-base64 decode(src): the bytes a Base64 string spells, decoded as UTF-8
\* into a string, in every runtime
decode(src) == String(utf8Decode(src.v))

\* x.byteLength: undefined on a string
byteLength(x) == IF x.t = "Uint8Array" THEN Len(x.v) ELSE NaN

\* a + b on lengths
plus(a, b) == IF a = NaN \/ b = NaN THEN NaN ELSE a + b

\* new Uint8Array(n): n zero bytes; NaN counts as 0
newUint8Array(n) == Uint8Array([i \in 1..(IF n = NaN THEN 0 ELSE n) |-> 0])

\* target.set(source, offset): the elements of an array-like source (the code
\* units of a string among them) are written from offset on; offset
\* undefined or NaN counts as 0; a source that does not fit throws RangeError
typedArraySet(target, source, offset) ==
    LET off == IF offset = NaN THEN 0 ELSE offset
    IN  IF Len(source.v) + off > Len(target.v)
        THEN [t |-> "RangeError", v |-> <<>>]
        ELSE Uint8Array([i \in DOMAIN target.v |->
                            IF i > off /\ i <= off + Len(source.v)
                            THEN source.v[i - off] % 256 ELSE target.v[i]])

\* unnamed/part_003:69 the length of the tag of AES-GCM
tagLength == 16

\* AES-GCM as the model has it: the key stream and the tag are functions of
\* the key and of every byte of the iv; the tag also of every byte of the
\* ciphertext, with weights under which a change of one byte and a change of
\* key do not cancel
keyStream(key, iv, i) == (key + Sum(iv) + i) % 128
gcmTag(key, iv, ct) ==
    [j \in 1..tagLength |-> (31 * key + 7 * Sum(iv) + 3 * Sum(ct) + j) % 128]

\* crypto.subtle.encrypt({name: 'AES-GCM', iv}, key, data): the ciphertext
\* with the tag appended
subtleEncrypt(key, iv, data) ==
    LET ct == [i \in DOMAIN data |-> (data[i] + keyStream(key, iv, i)) % 128]
    IN  ct \o gcmTag(key, iv, ct)

\* what encrypt and decrypt give back: a thrown error, or the envelope, or
\* the plaintext
Thrown(e) == [ok |-> FALSE, error |-> e, plain |-> <<>>,
              iv |-> Base64(<<>>), ciphertext |-> Base64(<<>>), tag |-> Base64(<<>>)]
Envelope(iv, ciphertext, tag) ==
    [ok |-> TRUE, error |-> "none", plain |-> <<>>,
     iv |-> iv, ciphertext |-> ciphertext, tag |-> tag]
Plaintext(points) == [Thrown("none") EXCEPT !.ok = TRUE, !.plain = points]

\* crypto.subtle.decrypt({name: 'AES-GCM', iv}, key, data): the iv must be a
\* buffer; the last tagLength bytes of data are the tag, and the plaintext is
\* released only if the tag is the one the key, the iv and the ciphertext give
subtleDecrypt(key, iv, data) ==
    IF iv.t # "Uint8Array" THEN Thrown("TypeError")
    ELSE IF Len(data) < tagLength THEN Thrown("OperationError")
    ELSE LET n == Len(data) - tagLength
             ct == SubSeq(data, 1, n)
             tag == SubSeq(data, n + 1, Len(data))
         IN  IF tag # gcmTag(key, iv.v, ct) THEN Thrown("OperationError")
             ELSE Plaintext([i \in 1..n |-> (ct[i] + 128 - keyStream(key, iv.v, i)) % 128])

\* encrypt, had it sealed every payload under twelve zero bytes
encryptFixedIv(sharedSecret, payload, iv, rt) ==
    LET zeros == [i \in 1..12 |-> 0]
        encrypted == subtleEncrypt(sharedSecret, zeros, utf8Encode(payload))
        ciphertext == SubSeq(encrypted, 1, Len(encrypted) - tagLength)
        tag == SubSeq(encrypted, Len(encrypted) - tagLength + 1, Len(encrypted))
    IN  IF encode(Uint8Array(zeros), rt).t = "TypeError" THEN Thrown("TypeError")
        ELSE Envelope(encode(Uint8Array(zeros), rt),
                      encode(Uint8Array(ciphertext), rt),
                      encode(Uint8Array(tag), rt))

\* unnamed/part_003:40-78 encrypt(sharedSecret, payload), for the iv that
\* getRandomBytes(12) returned
encrypt(sharedSecret, payload, iv, rt) ==
    LET encodedPayload == utf8Encode(payload)
        encrypted == subtleEncrypt(sharedSecret, iv, encodedPayload)
        ciphertext == SubSeq(encrypted, 1, Len(encrypted) - tagLength)
        tag == SubSeq(encrypted, Len(encrypted) - tagLength + 1, Len(encrypted))
    IN  IF encode(Uint8Array(iv), rt).t = "TypeError" THEN Thrown("TypeError")
        ELSE Envelope(encode(Uint8Array(iv), rt),
                      encode(Uint8Array(ciphertext), rt),
                      encode(Uint8Array(tag), rt))

\* decrypt, had it released the bytes under the key stream without the tag
decryptUnverified(sharedSecret, encryptedData) ==
    LET iv == encryptedData.iv.v
        ct == encryptedData.ciphertext.v
    IN  Plaintext([i \in DOMAIN ct |-> (ct[i] + 128 - keyStream(sharedSecret, iv, i)) % 128])

\* unnamed/part_003:87-117 decrypt(sharedSecret, encryptedData): the three
\* fields go through decode (lines 91-93), the buffer is sized by their
\* byteLength (line 96) and filled with set (lines 97-98), then handed to
\* crypto.subtle.decrypt (lines 110-114) and the result to TextDecoder
decrypt(sharedSecret, encryptedData) ==
    LET iv == decode(encryptedData.iv)
        ciphertext == decode(encryptedData.ciphertext)
        tag == decode(encryptedData.tag)
        fullEncrypted == newUint8Array(plus(byteLength(ciphertext), byteLength(tag)))
        withCiphertext == typedArraySet(fullEncrypted, ciphertext, 0)
        withTag == typedArraySet(withCiphertext, tag, byteLength(ciphertext))
    IN  IF withCiphertext.t = "RangeError" THEN Thrown("RangeError")
        ELSE IF withTag.t = "RangeError" THEN Thrown("RangeError")
        ELSE LET decrypted == subtleDecrypt(sharedSecret, iv, withTag.v)
             IN  IF decrypted.ok THEN Plaintext(utf8Decode(decrypted.plain))
                 ELSE decrypted

\* a step of the encryption service leaves the rest alone
CryptOnly == UNCHANGED <<connVars, keyVars, cacheVars, syncVars, initVars, feedVars>>

\* the inputs: the key pairs generated so far, three payloads ("", "h",
\* "hi") and the two values getRandomBytes(12) returns
KeyPairs == 0..MaxKeys
Payloads == {<<>>, <<104>>, <<104, 105>>}
RandomBytes == {[i \in 1..12 |-> b] : b \in {1, 2}}

\* the envelopes that differ from env in one byte of one field
Tampered(env) ==
    {[env EXCEPT !.iv.v[i] = (@ + 1) % 128] : i \in DOMAIN env.iv.v}
    \cup {[env EXCEPT !.ciphertext.v[i] = (@ + 1) % 128] : i \in DOMAIN env.ciphertext.v}
    \cup {[env EXCEPT !.tag.v[i] = (@ + 1) % 128] : i \in DOMAIN env.tag.v}

\* two owners of key pairs derive the secret they share, each from its own
\* secret key and the public key of the other, before they seal anything
DeriveSharedSecret ==
    \E a \in KeyPairs, b \in KeyPairs :
        /\ drawn = <<>>
        /\ agreed' = [a |-> a, b |-> b,
                      ab |-> deriveSharedSecret(secretKey(a), publicKey(b)),
                      ba |-> deriveSharedSecret(secretKey(b), publicKey(a))]
        /\ agreed' # agreed
        /\ UNCHANGED <<runtime, sealed, opened, drawn>>
        /\ CryptOnly

\* a secret that is not the one the two derived
otherSecret(secret) == (secret + 1) % GroupP

\* unnamed/part_003:40-78 encrypt is called by one of the two under the
\* secret it derived; getRandomBytes(12) returns iv
Encrypt ==
    \E s \in {agreed.ab, agreed.ba}, p \in Payloads, iv \in RandomBytes, rt \in Runtimes :
        /\ agreed.ab # 0
        /\ Len(drawn) < MaxEncrypts
        /\ runtime' = IF runtime = "unset" THEN rt ELSE runtime
        /\ sealed' = [secret |-> s, payload |-> p, out |-> encrypt(s, p, iv, runtime')]
        /\ drawn' = Append(drawn, [secret |-> s, bytes |-> iv, iv |-> sealed'.out.iv,
                                   ok |-> sealed'.out.ok])
        /\ opened' = NotOpened
        /\ UNCHANGED agreed
        /\ CryptOnly

\* unnamed/part_003:87-117 decrypt is called on the last envelope, as it was
\* sealed or with one byte changed, under some secret; decrypt keeps nothing,
\* so one call per envelope shows all it does
Decrypt ==
    \E s \in {agreed.ab, agreed.ba, otherSecret(sealed.secret)},
       e \in {sealed.out} \cup Tampered(sealed.out) :
        /\ sealed.out.ok
        /\ opened = NotOpened
        /\ opened' = [secret |-> s, tampered |-> (e # sealed.out), out |-> decrypt(s, e)]
        /\ UNCHANGED <<runtime, agreed, sealed, drawn>>
        /\ CryptOnly

NextCrypt ==
    \/ DeriveSharedSecret
    \/ Encrypt
    \/ Decrypt

SpecCrypt == Init /\ [][NextCrypt]_vars

\* ============================================ the write paths of a post
SyncOnly == UNCHANGED <<connVars, keyVars, cryptVars, initVars, feedVars>>

\* CommunityFeedScreen.tsx:187-200 the post handlePost builds
optimisticPost(p) ==
    [id |-> p, community_id |-> "c1", author_public_key |-> LocalId,
     content |-> "text", signature |-> "sig", timestamp |-> 1,
     likes_count |-> 0, reposts_count |-> 0, is_liked_by_me |-> 0,
     is_reposted_by_me |-> 0, author_name |-> "short", is_moderated |-> 0]

\* socketService.ts:438: the server relays the post its author sent
pushedPost(p) ==
    [id |-> p, community_id |-> "c1", author_public_key |-> Author(p),
     content |-> "text", signature |-> "sig", timestamp |-> 1,
     likes_count |-> 0, reposts_count |-> 0, is_liked_by_me |-> 0,
     is_reposted_by_me |-> 0, author_name |-> "short", is_moderated |-> 0]

\* BackgroundSyncTask.ts:112-125 the post the task builds from an item
syncPost(p) ==
    [id |-> p, community_id |-> "c1", author_public_key |-> Author(p),
     content |-> "text", signature |-> "", timestamp |-> 1,
     likes_count |-> 0, reposts_count |-> 0, is_liked_by_me |-> 0,
     is_reposted_by_me |-> 0, author_name |-> "null", is_moderated |-> 0]

\* a path has stored the post p
Applied(p, path, ok) ==
    IF ok THEN [applied EXCEPT ![p] = @ \cup {path}] ELSE applied

\* a handlePost that goes on to the send when the insert has thrown
handlePostSendAnyway(ok, emit) == IF emit = <<>> THEN "dropped" ELSE "emitted"

\* CommunityFeedScreen.tsx:205-212: the insert is awaited; when it throws the
\* catch of line 210 is entered and sendCommunityPost (line 208) is not
\* called; called, it returns without emitting when the socket is not
\* connected (socketService.ts:429-432)
handlePostSend(ok, emit) ==
    IF ~ok THEN "notInvoked"
    ELSE IF emit = <<>> THEN "dropped" ELSE "emitted"

\* CommunityFeedScreen.tsx:163-216 handlePost, for a post id uuidv4 returns:
\* the post is stored (line 205), then handed to sendCommunityPost (line 208),
\* which emits it when the socket is connected; a failed insert skips the send
HandlePost ==
    \E ready \in BOOLEAN :
        LET p == "p1"
            ok == insertCommunityPostOk(communities, optimisticPost(p))
            send == handlePostSend(ok, sendCommunityPostEmit(activeRooms, "c1", ready))
        IN  /\ applied[p] = {} /\ p \notin onServer
            /\ community_posts' = insertCommunityPost(communities, community_posts, optimisticPost(p))
            /\ lastSql' = [op |-> "handlePost", ok |-> ok, row |-> optimisticPost(p),
                           old |-> RowOf(community_posts, p),
                           size |-> Len(community_posts), send |-> send]
            /\ applied' = Applied(p, "optimistic", ok)
            /\ onServer' = IF send = "emitted" THEN onServer \cup {p} ELSE onServer
            /\ UNCHANGED <<db, foreignKeys, communities, clearPc, undeclaredRead, syncPc,
                           syncComms, missedPosts, batch, run>>
            /\ SyncOnly

\* another member's post reaches the server
PeerPosts ==
    /\ "p2" \notin onServer
    /\ onServer' = onServer \cup {"p2"}
    /\ UNCHANGED <<applied, undeclaredRead, syncPc, syncComms, missedPosts,
                   batch, run>>
    /\ UNCHANGED cacheVars
    /\ SyncOnly

\* community_post_received for a post the server holds.  The handler of the
\* service (socketService.ts:237-266) stores it unless its author is the
\* local identity; the handler of the screen (CommunityFeedScreen.tsx:138-151)
\* stores it.
PushReceived ==
    \E p \in onServer, screen \in BOOLEAN :
        LET stores == screen \/ "cache" \in communityPostSinks(Author(p))
            ok == stores /\ insertCommunityPostOk(communities, pushedPost(p))
        IN  /\ community_posts' = IF stores
                                  THEN insertCommunityPost(communities, community_posts, pushedPost(p))
                                  ELSE community_posts
            /\ lastSql' = Sql("pushReceived", ok, pushedPost(p),
                              RowOf(community_posts, p), Len(community_posts))
            /\ applied' = Applied(p, "push", ok)
            /\ UNCHANGED <<db, foreignKeys, communities, clearPc, onServer, undeclaredRead,
                           syncPc, syncComms, missedPosts, batch, run>>
            /\ SyncOnly

\* unnamed/part_000:60-90 CreateCommunityScreen: the user creates the
\* community and stores it with is_member = 1
CreateCommunity ==
    /\ DbOpen
    /\ RowsOf(communities, "c1") = <<>>
    /\ communities' = insertCommunityRows(communities, [id |-> "c1", name |-> "n1", created_at |-> 1, is_member |-> 1])
    /\ community_posts' = community_posts
    /\ lastSql' = Sql("insertCommunity", TRUE, [id |-> "c1", name |-> "n1", created_at |-> 1, is_member |-> 1],
                      NoRow, Len(communities))
    /\ UNCHANGED <<db, foreignKeys, clearPc>>
    /\ UNCHANGED syncVars
    /\ SyncOnly

\* BackgroundSyncTask.ts:48: the ids of the communities with is_member = 1
activeCommunityIds(comms) ==
    LET Member(x) == x.is_member = 1
        members == SelectSeq(comms, Member)
    IN  [i \in DOMAIN members |-> members[i].id]

\* BackgroundSyncTask.ts:26-53: the task starts.  initDb, then the read of
\* line 41; a throw ends the task in the catch of line 140
SyncStart ==
    \E t \in {"throws", "bound"} :
        /\ syncPc = "idle"
        /\ initDb
        /\ undeclaredRead' = IF undeclaredRead = "unset" THEN t ELSE undeclaredRead
        /\ IF undeclaredRead' = "throws" \/ activeCommunityIds(communities) = <<>>
           THEN UNCHANGED <<syncPc, syncComms>>
           ELSE /\ syncPc' = "fetch"
                /\ syncComms' = activeCommunityIds(communities)
        /\ run' = [members |-> {activeCommunityIds(communities)[i] :
                                    i \in DOMAIN activeCommunityIds(communities)},
                    requested |-> {}]
        /\ lastSql' = Sql("syncStart", TRUE, NoRow, NoRow, 0)
        /\ UNCHANGED <<communities, community_posts, clearPc, onServer, applied,
                       missedPosts, batch>>
        /\ SyncOnly

\* the key pair of the member who sent the items; generateX25519KeyPair
\* never returns it to this device
SenderKey == 0

\* unnamed/part_003:127-139 fetchRecipientX25519PublicKey: the public key of
\* a key pair generated for the call and dropped, whoever is asked for
fetchRecipientX25519PublicKey(sender, n) == publicKey(generateX25519KeyPair(n))

\* what the server can hold for a post: plaintext, a payload its sender
\* encrypted for this device, or such a payload with a tag that was altered
ItemKinds == {"plain", "encrypted", "tampered"}

\* BackgroundSyncTask.ts:12-23 EncryptedServerMessage: secret names the
\* shared secret the payload was sealed with
Item(p, kind, seeker) ==
    [id |-> p, is_encrypted |-> (kind # "plain"),
     tag_ok |-> (kind # "tampered"),
     secret |-> deriveSharedSecret(secretKey(SenderKey), publicKey(seeker))]

\* the items of a sequence of post ids, each of its own kind
Items(ids, kinds, seeker) ==
    [i \in DOMAIN ids |-> Item(ids[i], kinds[i], seeker)]

\* the answers the server can give: posts it holds, in some order
Answers ==
    {<<>>} \cup {<<p>> : p \in onServer}
           \cup {pq \in onServer \X onServer : pq[1] # pq[2]}

\* BackgroundSyncTask.ts:60-78: the next community is fetched.  A failed
\* fetch (lines 66-68) or a missing secret key (lines 74-77) skips it.
SyncFetch ==
    \E fetched \in BOOLEAN, ids \in Answers : \E kinds \in [DOMAIN ids -> ItemKinds] :
        /\ syncPc = "fetch"
        /\ syncComms # <<>>
        /\ syncComms' = Tail(syncComms)
        /\ run' = [run EXCEPT !.requested = @ \cup {Head(syncComms)}]
        /\ IF fetched /\ ids # <<>> /\ secureStore # 0
           THEN /\ missedPosts' = Items(ids, kinds, secureStore)
                /\ syncPc' = "items"
           ELSE /\ missedPosts' = <<>>
                /\ syncPc' = IF Tail(syncComms) = <<>> THEN "idle" ELSE "fetch"
        /\ batch' = missedPosts'
        /\ lastSql' = Sql("syncFetch", TRUE, NoRow, NoRow, 0)
        /\ UNCHANGED <<db, foreignKeys, communities, community_posts, clearPc,
                       onServer, applied, undeclaredRead>>
        /\ SyncOnly

\* decrypt, had it returned the payload whatever the key and the tag
decryptAnything(item, sharedSecret) == TRUE

\* BackgroundSyncTask.ts:88-92 the iv, ciphertext and tag of an item: what
\* its sender sealed under item.secret, with one byte of the tag changed
\* when the item was tampered with
encryptedData(item) ==
    LET env == encrypt(item.secret, <<104, 105>>, [i \in 1..12 |-> 1], "buffer")
    IN  IF item.tag_ok THEN env ELSE [env EXCEPT !.tag.v[1] = (@ + 1) % 128]

\* BackgroundSyncTask.ts:88-92 whether EncryptionService.decrypt returns
\* rather than throws
decryptOk(item, sharedSecret) == decrypt(sharedSecret, encryptedData(item)).ok

\* the loop of line 80, had the catch been around it: a throw ends the batch
itemsLeftAborting(items, threw) == IF threw THEN <<>> ELSE Tail(items)

\* BackgroundSyncTask.ts:80-133: the try of line 81 is inside the loop, so an
\* item that throws is logged (lines 130-132) and the loop goes on
itemsLeft(items, threw) == Tail(items)

\* BackgroundSyncTask.ts:80-133: the next item is decrypted if it is
\* encrypted (lines 82-92), built and stored; a throw is caught per item
SyncItem ==
    /\ syncPc = "items"
    /\ missedPosts # <<>>
    /\ LET item == Head(missedPosts)
           senderX25519PublicKey == fetchRecipientX25519PublicKey(Author(item.id), nextKey)
           sharedSecret == deriveSharedSecret(secretKey(secureStore), senderX25519PublicKey)
           builds == ~item.is_encrypted \/ decryptOk(item, sharedSecret)
           ok == builds /\ insertCommunityPostOk(communities, syncPost(item.id))
           left == itemsLeft(missedPosts, ~ok)
       IN  /\ community_posts' = IF builds
                                 THEN insertCommunityPost(communities, community_posts, syncPost(item.id))
                                 ELSE community_posts
           /\ lastSql' = Sql("syncItem", ok, IF builds THEN syncPost(item.id) ELSE NoRow,
                             RowOf(community_posts, item.id), Len(community_posts))
           /\ applied' = Applied(item.id, "sync", ok)
           /\ missedPosts' = left
           /\ syncPc' = IF left # <<>> THEN "items"
                        ELSE IF syncComms # <<>> THEN "fetch" ELSE "idle"
    \* part_003:138: the lookup of line 83 generates a key pair
    /\ Head(missedPosts).is_encrypted => nextKey < MaxKeys
    /\ nextKey' = IF Head(missedPosts).is_encrypted THEN nextKey + 1 ELSE nextKey
    /\ UNCHANGED <<db, foreignKeys, communities, clearPc, onServer,
                   undeclaredRead, syncComms, batch, run>>
    /\ UNCHANGED <<secureStore, keyWrites, keyPc, keyPair, seekerX25519KeyPair,
                   secureSend>>
    /\ UNCHANGED <<connVars, cryptVars, initVars, feedVars>>

\* the screen that owns the key pair has stored it (KeyWrite), as a step of
\* this specification
KeyStored ==
    /\ secureStore = 0
    /\ secureStore' = generateX25519KeyPair(nextKey)
    /\ keyWrites' = keyWrites \cup {generateX25519KeyPair(nextKey)}
    /\ nextKey' = nextKey + 1
    /\ UNCHANGED <<keyPc, keyPair, seekerX25519KeyPair, secureSend>>
    /\ UNCHANGED <<connVars, cacheVars, syncVars, cryptVars, initVars, feedVars>>

NextSync ==
    \/ HandlePost
    \/ PeerPosts
    \/ PushReceived
    \/ CreateCommunity
    \/ SyncStart
    \/ SyncFetch
    \/ SyncItem
    \/ KeyStored
    \/ InitDb

SpecSync == Init /\ [][NextSync]_vars

\* ================================== the app between foreground and background
\* BackgroundSyncTask.ts:324-343 handleAppStateChange: on 'background' and
\* 'inactive' it calls pauseConnection (line 329), on 'active' it awaits
\* resumeConnection (line 332) and does nothing more (line 333 is a TODO
\* comment).  Lines 346-389 register the task with the operating system,
\* which runs it at intervals (minimumInterval, line 360): SyncStart.
AppStates == {"background", "inactive", "active"}

handleAppStateChange(nextAppState) ==
    IF nextAppState \in {"background", "inactive"}
    THEN PauseConnection
    ELSE ResumeConnection

HandleAppStateChange ==
    \E nextAppState \in AppStates : handleAppStateChange(nextAppState)

NextApp ==
    \/ HandleAppStateChange
    \/ InitSocket
    \/ Connect
    \/ Disconnect
    \/ JoinCommunityFeed
    \/ InitDb
    \/ CreateCommunity
    \/ PeerPosts
    \/ KeyStored
    \/ SyncStart
    \/ SyncFetch
    \/ SyncItem

SpecApp == Init /\ [][NextApp]_vars

\* ================================================================ claims
\* the rooms named in the join requests of a sequence of emitted messages
JoinRooms(emit) ==
    {emit[i].arg : i \in {j \in DOMAIN emit : emit[j].ev \in {"join_chat", "join_community"}}}

\* C1: when the transport comes back after an unexpected loss, the join
\* requests emitted by the connect handler name exactly the rooms that were in
\* activeRooms at the loss.
C1_ReconnectReplay ==
    (last.op = "connect" /\ last.afterLoss) => JoinRooms(last.emit) = last.rooms

C3_SendNotConnected ==
    (last.op \in {"sendMessage", "sendCommunityPost"} /\ ~SocketReady) =>
        /\ last.ret = "NotConnected"
        /\ last.emit = <<>>
        /\ activeRooms = last.rooms

\* C4: the runs of initializeSeekerKeyPair for one identity store at most
\* one key pair under its keyStoreId, and the key pairs they set are the same.
C4_OneKeyPair ==
    /\ Cardinality(keyWrites) <= 1
    /\ \A a, b \in Callers :
           (seekerX25519KeyPair[a] # 0 /\ seekerX25519KeyPair[b] # 0) =>
               seekerX25519KeyPair[a] = seekerX25519KeyPair[b]

\* C5: once the optimistic write, the push handler and the background task
\* have all stored a post, its row is the same whatever the order they came
\* in: the row that storing them in the order written here leaves.
AfterAllPaths(p) ==
    RowOf(insertOrReplace(insertOrReplace(insertOrReplace(<<>>,
              optimisticPost(p)), pushedPost(p)), syncPost(p)), p)

C6_OneRowPerId ==
    /\ \A i, j \in DOMAIN community_posts :
           community_posts[i].id = community_posts[j].id => i = j
    /\ \A i, j \in DOMAIN communities :
           communities[i].id = communities[j].id => i = j
    /\ (lastSql.op = "insertCommunityPost" /\ lastSql.ok) =>
           /\ RowsOf(community_posts, lastSql.row.id) = <<lastSql.row>>
           /\ Len(community_posts) =
                  lastSql.size + (IF lastSql.old = NoRow THEN 1 ELSE 0)
    /\ (lastSql.op = "insertCommunity" /\ lastSql.ok) =>
           /\ RowsOf(communities, lastSql.row.id) = <<lastSql.row>>
           /\ Len(communities) =
                  lastSql.size + (IF lastSql.old = NoRow THEN 1 ELSE 0)

C6_Witness ==
    /\ lastSql.op = "insertCommunityPost"
    /\ lastSql.ok
    /\ lastSql.old # NoRow
    /\ lastSql.old # lastSql.row
    /\ Len(community_posts) = 2
    /\ RowsOf(community_posts, lastSql.row.id) = <<lastSql.row>>

\* C11: the manager is connected, and the promise of initSocket resolves
\* true, only once the server has acknowledged the authentication: not at the
\* connect step, which only sends the authenticate message, and not after an
\* acknowledgment that reports failure.
C11_AuthBeforeConnected ==
    /\ last.op = "connect" => (~_isConnected /\ promAtStep.res # "true")
    /\ (last.op = "authenticated" /\ last.ret = "failure") => ~_isConnected

\* C12: when the socket connects after pauseConnection and resumeConnection,
\* the join requests emitted by the connect handler name exactly the rooms
\* that were in activeRooms when pauseConnection was called.
C12_ResumeReplay ==
    (last.op = "connect" /\ last.afterPause) =>
        JoinRooms(last.emit) = last.pauseRooms

\* C13: sendMessage or sendCommunityPost called on a connected socket for a
\* room that is not in activeRooms emits a join request for the room, then
\* the payload, and the room is in activeRooms afterwards.
C13_SendJoinsFirst ==
    (/\ last.op \in {"sendMessage", "sendCommunityPost"}
     /\ SocketReady
     /\ last.room \notin last.rooms) =>
        /\ Len(last.emit) = 2
        /\ last.emit[1].ev \in {"join_chat", "join_community"}
        /\ last.emit[1].arg = last.room
        /\ last.emit[2].ev \in {"send_message", "send_community_post"}
        /\ last.room \in activeRooms

\* C14: joinChat or joinCommunityFeed for a room that is in activeRooms, and
\* leaveChat or leaveCommunityFeed for a room that is not, emit nothing and
\* leave activeRooms as it was.
C14_JoinLeaveIdempotent ==
    /\ (last.op \in {"joinChat", "joinCommunityFeed"} /\ last.room \in last.rooms) =>
           last.emit = <<>> /\ activeRooms = last.rooms
    /\ (last.op \in {"leaveChat", "leaveCommunityFeed"} /\ last.room \notin last.rooms) =>
           last.emit = <<>> /\ activeRooms = last.rooms

C14_Witness ==
    /\ last.op = "joinCommunityFeed"
    /\ SocketReady
    /\ last.room \in last.rooms
    /\ activeRooms = last.rooms
    /\ "chat1" \in activeRooms

\* C15: after joinChat or joinCommunityFeed the room is in activeRooms, and
\* after leaveChat or leaveCommunityFeed it is not, connected or not.
C15_MembershipFollowsCalls ==
    /\ last.op \in {"joinChat", "joinCommunityFeed"} => last.room \in activeRooms
    /\ last.op \in {"leaveChat", "leaveCommunityFeed"} => last.room \notin activeRooms

\* C16: a step of the task on an encrypted item whose tag was altered, or
\* whose payload was sealed with another secret than the one the task
\* derives, writes nothing: both tables and the record of stored posts are
\* as they were.
C16_FailedDecryptWritesNothing ==
    [][(/\ syncPc = "items"
        /\ missedPosts # <<>>
        /\ lastSql'.op = "syncItem"
        /\ Head(missedPosts).is_encrypted
        /\ \/ ~Head(missedPosts).tag_ok
           \/ Head(missedPosts).secret #
                  deriveSharedSecret(secretKey(secureStore),
                      fetchRecipientX25519PublicKey(Author(Head(missedPosts).id), nextKey)))
       => /\ community_posts' = community_posts
          /\ communities' = communities
          /\ applied' = applied]_vars

C16_Witness ==
    /\ lastSql.op = "syncItem"
    /\ lastSql.row = NoRow
    /\ ~lastSql.ok
    /\ community_posts # <<>>
    /\ \E i \in DOMAIN batch : ~batch[i].tag_ok

\* C17: when the task has gone through the items of a fetch, every plain
\* item of the fetch that the database accepts has been stored by the task,
\* whatever happened to the items before it.
C17_BatchGoesOn ==
    syncPc # "items" =>
        \A i \in DOMAIN batch :
            (~batch[i].is_encrypted /\ insertCommunityPostOk(communities, syncPost(batch[i].id)))
                => "sync" \in applied[batch[i].id]

C17_Witness ==
    /\ syncPc # "items"
    /\ lastSql.op = "syncItem"
    /\ lastSql.ok
    /\ Len(batch) = 2
    /\ batch[1].is_encrypted
    /\ ~batch[2].is_encrypted
    /\ applied[batch[1].id] = {}
    /\ "sync" \in applied[batch[2].id]
    /\ RowOf(community_posts, batch[2].id) = syncPost(batch[2].id)

\* C18: when a run of the task has ended, the communities it has requested
\* missed posts for are exactly the communities that had is_member = 1 when
\* it started.
C18_RequestsMemberCommunities ==
    (syncPc = "idle" /\ lastSql.op \in {"syncStart", "syncFetch", "syncItem"}) =>
        run.requested = run.members

\* C19: a step that deletes the row of a community leaves no post of that
\* community in community_posts.
C19_PostsGoWithCommunity ==
    [][\A c \in CachedCommunityIds :
          (RowsOf(communities, c) # <<>> /\ RowsOf(communities', c) = <<>>) =>
              \A i \in DOMAIN community_posts' : community_posts'[i].community_id # c]_vars

\* C20: once a key pair is in the secure store, no step changes it.
C20_StoredKeyNeverChanges ==
    [][secureStore # 0 => secureStore' = secureStore]_vars

\* C21: a run of initializeSeekerKeyPair that SecureStore failed leaves the
\* screen without a key pair, and a send from that screen is refused; a key
\* pair a screen holds, or has derived a secret from, is one that was stored.
C21_NoKeyOnStoreFailure ==
    \A c \in Callers :
        /\ keyPc[c] = "failed" =>
               (seekerX25519KeyPair[c] = 0 /\ secureSend[c] \in {0, -1})
        /\ seekerX25519KeyPair[c] # 0 => seekerX25519KeyPair[c] \in keyWrites
        /\ secureSend[c] > 0 => secureSend[c] \in keyWrites

C21_Witness ==
    \E c \in Callers :
        /\ keyPc[c] = "failed"
        /\ keyPair[c] # 0
        /\ keyPair[c] \notin keyWrites
        /\ secureSend[c] = -1

C23_RoundTrip ==
    (/\ opened.out.error # "notCalled"
     /\ ~opened.tampered
     /\ opened.secret = sealed.secret) =>
        (opened.out.ok /\ opened.out.plain = sealed.payload)

\* C24: the secret derived from the secret key of one key pair and the
\* public key of another is the secret derived from the secret key of the
\* second and the public key of the first.
C24_SharedSecretSymmetric ==
    agreed.ab = agreed.ba

C24_Witness ==
    /\ agreed.a = 1
    /\ agreed.b = 3
    /\ agreed.ab = agreed.ba
    /\ agreed.ab # deriveSharedSecret(secretKey(1), publicKey(2))
    /\ agreed.ab # deriveSharedSecret(secretKey(1), publicKey(1))

C7_NoSelfEcho ==
    (last.op \in InboundKinds /\ last.sender = LocalId) => last.sinks = {}

\* C8: the disconnect caused by pauseConnection schedules no reconnect timer
\* and leaves no attempt outstanding; a transport loss in persistent mode,
\* with a user id set, schedules one reconnect timer.
C8_PauseNoReconnect ==
    [][/\ (last'.op = "pauseConnection" /\ last'.acted) =>
              reconnTimers' = reconnTimers /\ ~attempting'
       /\ (last'.op = "disconnect" /\ isPersistent /\ userId # "null") =>
              reconnTimers' = reconnTimers + 1]_vars

C8_Witness ==
    /\ last.op = "pauseConnection"
    /\ last.acted
    /\ isPersistent
    /\ reconnTimers = 0
    /\ ~attempting

\* C9: the final attempt on the polling transport is made once, and the
\* failed attempts counted for a socket are the capped ones and that one.
C9_OneFinalAttempt ==
    /\ finalAttempts <= 1
    /\ reconnectAttempts <= maxReconnectAttempts + 1

\* C10 as stated: the promise of initSocket resolves false only once the
\* failed attempts have reached the cap.
C10_FalseAfterBudget ==
    promAtStep.res = "false" => promAtStep.attempts >= maxReconnectAttempts

\* C10: the promise of initSocket resolves true in the connect handler, with
\* the connected flag set, and a call that finds the manager connected gets
\* true; it resolves false when its 10 s timer or one of its 5 s timers fires
\* while the connected flag is clear, and a 5 s timer of the call whose
\* socket is still the current one exists only once the failed attempts have
\* reached the cap.
C10_ResolveRule ==
    /\ promAtStep.res = "true" => promAtStep.by = "connect" /\ _isConnected
    /\ (last.op = "connect" /\ watch = "current") => prom \in {"true", "false"}
    /\ (last.op \in {"initSocket", "resumeConnection"} /\ last.ret = "true") => _isConnected
    /\ promAtStep.res = "false" =>
           /\ promAtStep.by \in {"initTimeout", "finalTimeout"}
           /\ ~promAtStep.conn
           /\ ~_isConnected
    /\ (finalTimers > 0 /\ watch = "current") =>
           reconnectAttempts >= maxReconnectAttempts
    /\ (promAtStep.res = "false" /\ promAtStep.by = "finalTimeout" /\ watch = "current") =>
           promAtStep.attempts >= maxReconnectAttempts

C10_Witness ==
    /\ promAtStep.res = "false"
    /\ promAtStep.by = "initTimeout"
    /\ promAtStep.attempts < maxReconnectAttempts
    /\ attempting

\* C26: getCommunities returns every row of table communities, each once, the
\* later created first; getCommunityPosts returns every row of community_posts
\* whose community_id is the one asked for, each once, and no other row, the
\* later written first.
NonIncreasing(rows, column) ==
    \A i, j \in DOMAIN rows : i < j => rows[i][column] >= rows[j][column]

SameRows(rows, table, Ids) ==
    /\ Len(rows) = Cardinality(Ids)
    /\ {rows[i] : i \in DOMAIN rows} = {table[i] : i \in Ids}

C26_ListsNewestFirst ==
    /\ lastSql.op = "getCommunities" =>
           /\ SameRows(lastSql.rows, communities, DOMAIN communities)
           /\ NonIncreasing(lastSql.rows, "created_at")
    /\ lastSql.op = "getCommunityPosts" =>
           /\ SameRows(lastSql.rows, community_posts,
                       {i \in DOMAIN community_posts :
                           community_posts[i].community_id = lastSql.row.id})
           /\ NonIncreasing(lastSql.rows, "timestamp")

C26_Witness ==
    /\ lastSql.op = "getCommunityPosts"
    /\ Len(lastSql.rows) = 2
    /\ lastSql.rows[1] = community_posts[2]
    /\ lastSql.rows[1].timestamp > lastSql.rows[2].timestamp
    /\ Len(communities) = 2
    /\ getCommunities(communities)[1] = communities[2]

\* C27: a step that takes the app from the background to the foreground
\* starts a run of the sync task.
C27_ResumeRunsCatchUp ==
    [][(paused.phase = "paused" /\ paused'.phase = "resumed"
            /\ lastSql.op # "syncStart")
          => lastSql'.op = "syncStart"]_vars

\* C28: when handlePost has called sendCommunityPost, the post it built is in
\* community_posts, whether the send emitted it or dropped it; a handlePost
\* whose insert failed has not called the send.
C28_StoredBeforeSend ==
    lastSql.op = "handlePost" =>
        /\ lastSql.send # "notInvoked" =>
               RowsOf(community_posts, lastSql.row.id) = <<lastSql.row>>
        /\ lastSql.send = "notInvoked" <=> ~lastSql.ok

C28_Witness ==
    /\ lastSql.op = "handlePost"
    /\ lastSql.send = "dropped"
    /\ lastSql.old = NoRow
    /\ RowsOf(community_posts, "p1") = <<lastSql.row>>
    /\ "p1" \notin onServer

\* C29 as stated: a step that changes activeRooms is a joinChat, leaveChat,
\* joinCommunityFeed, leaveCommunityFeed or sendMessage.
RoomCalls ==
    {"joinChat", "leaveChat", "joinCommunityFeed", "leaveCommunityFeed",
     "sendMessage"}

OnlyRowChanged(before, after, id) ==
    /\ Len(after) = Len(before)
    /\ \A i \in DOMAIN before :
           /\ after[i].id = before[i].id
           /\ before[i].id # id => after[i] = before[i]

C30_TargetedUpdates ==
    [][/\ lastSql'.op = "updateCommunityPostEngagement" =>
              /\ communities' = communities
              /\ OnlyRowChanged(community_posts, community_posts', lastSql'.row.id)
              /\ \A i \in DOMAIN community_posts :
                     [community_posts'[i] EXCEPT
                          !.likes_count = community_posts[i].likes_count,
                          !.reposts_count = community_posts[i].reposts_count,
                          !.is_liked_by_me = community_posts[i].is_liked_by_me,
                          !.is_reposted_by_me = community_posts[i].is_reposted_by_me]
                         = community_posts[i]
       /\ lastSql'.op = "updateCommunityPostModeration" =>
              /\ communities' = communities
              /\ OnlyRowChanged(community_posts, community_posts', lastSql'.row.id)
              /\ \A i \in DOMAIN community_posts :
                     [community_posts'[i] EXCEPT
                          !.is_moderated = community_posts[i].is_moderated]
                         = community_posts[i]
       /\ lastSql'.op = "updateCommunityMembership" =>
              /\ community_posts' = community_posts
              /\ OnlyRowChanged(communities, communities', lastSql'.row.id)
              /\ \A i \in DOMAIN communities :
                     [communities'[i] EXCEPT !.is_member = communities[i].is_member]
                         = communities[i]
       /\ lastSql'.op = "deleteCommunityPost" =>
              /\ communities' = communities
              /\ LET Other(x) == x.id # lastSql'.row.id
                 IN  community_posts' = SelectSeq(community_posts, Other)
       /\ (/\ lastSql'.op \in {"updateCommunityPostEngagement",
                                "updateCommunityPostModeration",
                                "updateCommunityMembership", "deleteCommunityPost"}
           /\ RowsOf(community_posts, lastSql'.row.id) = <<>>
           /\ RowsOf(communities, lastSql'.row.id) = <<>>)
              => /\ community_posts' = community_posts
                 /\ communities' = communities]_vars

C30_Witness ==
    /\ lastSql.op = "updateCommunityPostEngagement"
    /\ lastSql.row.id = "p1"
    /\ Len(community_posts) = 2
    /\ RowOf(community_posts, "p1").likes_count = 2
    /\ RowOf(community_posts, "p1").is_moderated = 1
    /\ RowOf(community_posts, "p2").likes_count = 0
    /\ RowOf(community_posts, "p2").is_moderated = 1
    /\ Len(communities) = 2
    /\ communities[1].is_member # communities[2].is_member

\* C32: pauseConnection leaves no connected socket, no connect attempt in
\* flight and no reconnect timer pending.
C32_PauseStopsAttempts ==
    last.op = "pauseConnection" =>
        /\ ~sockConnected
        /\ ~attempting
        /\ reconnTimers = 0

\* C33: the connect handler, at the first connect and at each reconnect, emits
\* one authenticate message, with the user id initSocket was given, before
\* anything else; no other step emits one, and a step that emits a join
\* request runs on a socket whose connect handler has run.
C33_AuthenticateFirst ==
    /\ last.op = "connect" =>
           /\ last.emit # <<>>
           /\ last.emit[1] = Msg("authenticate", LocalId)
           /\ \A i \in DOMAIN last.emit : last.emit[i].ev = "authenticate" => i = 1
    /\ last.op # "connect" =>
           /\ \A i \in DOMAIN last.emit : last.emit[i].ev # "authenticate"
           /\ JoinRooms(last.emit) # {} => sockConnected /\ _isConnected

C33_Witness ==
    /\ last.op = "connect"
    /\ last.afterLoss
    /\ last.rooms # {}
    /\ last.emit = <<Msg("authenticate", LocalId)>>
    /\ reconnectAttempts > 0

\* C34: while the promise of the watched initSocket call is pending, something
\* is left that can resolve it: its socket is the one the service holds, or
\* one of its timers is still to fire.
C34_PendingCanResolve ==
    prom = "pending" => (watch = "current" \/ initTimer \/ finalTimers > 0)

\* C35: after subscribeToEvent the handler is registered, and it stays
\* registered through every step but unsubscribeFromEvent; a registered
\* handler gets every community_post_received the socket delivers.
C35_SubscriptionLasts ==
    [][/\ last'.op = "subscribeToEvent" => subscribed'
       /\ (subscribed /\ last'.op # "unsubscribeFromEvent") => subscribed'
       /\ (subscribed /\ last'.op = "community_post_received") =>
              "subscriber" \in last'.sinks]_vars

C38_SenderKeyStable ==
    [][(/\ syncPc = "items"
        /\ missedPosts # <<>>
        /\ lastSql'.op = "syncItem"
        /\ Head(missedPosts).is_encrypted)
       => LET sender == Author(Head(missedPosts).id)
              key == fetchRecipientX25519PublicKey(sender, nextKey)
          IN  /\ fetchRecipientX25519PublicKey(sender, nextKey') = key
              /\ deriveSharedSecret(secretKey(secureStore), key)
                     = Head(missedPosts).secret]_vars

\* ---------------------------------------------------------------------
\* SQLiteService.initDb step by step, with several callers

\* how many transactions the database holds at most
MaxQueue == 3

InitOnly == UNCHANGED <<connVars, keyVars, syncVars, cryptVars, feedVars>>

RestOfCache == UNCHANGED <<foreignKeys, communities, community_posts, lastSql, clearPc>>

Tx(kind, by) == [kind |-> kind, by |-> by]

\* SQLiteService.ts:42-50 initDb up to its first await: a set db returns
\* at once, else the caller awaits makeDirectoryAsync
initDbEnter(pc, c) ==
    [pc EXCEPT ![c] = IF db = "open" THEN "resolved" ELSE "mkdir"]

InitDbCall(c) ==
    /\ initPc[c] = "idle"
    /\ initPc' = initDbEnter(initPc, c)
    /\ UNCHANGED <<db, schema, txQueue, ran>>
    /\ RestOfCache /\ InitOnly

\* SQLiteService.ts:53-137 after the await: db is assigned and the
\* transaction that creates the tables is handed to the database
InitDbOpen(c) ==
    /\ initPc[c] = "mkdir"
    /\ Len(txQueue) < MaxQueue
    /\ db' = "open"
    /\ txQueue' = Append(txQueue, Tx("schema", c))
    /\ initPc' = [initPc EXCEPT ![c] = "schema"]
    /\ UNCHANGED <<schema, ran>>
    /\ RestOfCache /\ InitOnly

\* SQLiteService.ts:146-164 executeSql by a caller whose initDb() has
\* returned: throws without db, else hands a transaction to the database
ExecuteSql(c) ==
    /\ initPc[c] = "resolved"
    /\ DbOpen
    /\ Len(txQueue) < MaxQueue
    /\ txQueue' = Append(txQueue, Tx("cache", c))
    /\ UNCHANGED <<db, initPc, schema, ran>>
    /\ RestOfCache /\ InitOnly

\* the database runs its oldest transaction. SQLiteService.ts:56-137: the
\* one of initDb creates the tables and resolves, or fails and rejects
\* (db stays assigned); SQLiteService.ts:151-163: a statement of the cache
RunTransaction ==
    /\ txQueue # <<>>
    /\ LET tx == Head(txQueue)
       IN  /\ txQueue' = Tail(txQueue)
           /\ IF tx.kind = "schema"
              THEN \E ok \in BOOLEAN :
                      /\ schema' = IF ok THEN "created" ELSE schema
                      /\ initPc' = [initPc EXCEPT ![tx.by] = IF ok THEN "resolved" ELSE "rejected"]
                      /\ ran' = [kind |-> "schema", by |-> tx.by, tables |-> schema' = "created"]
              ELSE /\ ran' = [kind |-> "cache", by |-> tx.by, tables |-> schema = "created"]
                   /\ UNCHANGED <<schema, initPc>>
    /\ UNCHANGED db
    /\ RestOfCache /\ InitOnly

NextInit ==
    \/ \E c \in InitCallers : InitDbCall(c)
    \/ \E c \in InitCallers : InitDbOpen(c)
    \/ \E c \in InitCallers : ExecuteSql(c)
    \/ RunTransaction

SpecInit == Init /\ [][NextInit]_vars

\* C37: once initDb() has resolved for a caller the tables exist, also with
\* several callers at once, and no statement of the cache runs against a
\* database whose tables have not been created
C37_ResolvedMeansTables ==
    /\ \A c \in InitCallers : initPc[c] = "resolved" => schema = "created"
    /\ ran.kind = "cache" => ran.tables

\* ---------------------------------------------------------------------
\* The feed routes of the server and the feed screen that calls them

\* the signing keys of two wallets
FeedKeys == {"k1", "k2"}

\* part_002:100 publicKey.toBase58(): the key as a string
toBase58(k) == [key |-> k, form |-> "string"]

\* the same key as the JSON array of its bytes, which new PublicKey(...)
\* of feedRoutes.ts:38 takes as well
AsBytes(k) == [key |-> k, form |-> "array"]

\* the values a request can carry as author
AuthorValues == {toBase58(k) : k \in FeedKeys} \cup {AsBytes("k1")}

\* feedRoutes.ts:107, 145 l.author === author: strings are equal by value,
\* an array only to itself, and a stored array is never the array a later
\* request was parsed into
strictEquals(stored, author) ==
    /\ stored.form = "string"
    /\ author.form = "string"
    /\ stored.key = author.key

\* part_002:96-97, 139-140 signMessage and encodeBase64: the signature of a
\* wallet over a message, as the string a request carries
sign(k, message) == [kind |-> "base64", by |-> k, msg |-> message]

\* a string that is not base64
Garbage == [kind |-> "garbage", by |-> "", msg |-> ""]

\* feedRoutes.ts:34-45 verifySignature with everything accepted
verifySignatureAny(message, signature, author) == TRUE

\* feedRoutes.ts:34-45 verifySignature: false when decodeBase64, new
\* PublicKey or nacl throws, else whether the key signed the message
verifySignature(message, signature, author) ==
    IF signature.kind # "base64" \/ author.key \notin FeedKeys
    THEN FALSE
    ELSE signature.by = author.key /\ signature.msg = message

\* the ids the server gives its posts (feedRoutes.ts:72): each one new
ServerPostIds == {"post1", "post2"}
NewPostId(posts) == "post" \o ToString(Len(posts) + 1)

\* how many likes and reposts the server holds at most
MaxEngagements == 2

FeedContents == {"hi"}

\* part_002:94 the message handlePost signs
postMessageToSign(content, timestamp) == content \o "-" \o ToString(timestamp)

\* part_002:137 the message handleEngagement signs
engagementMessageToSign(postId, action) == postId \o action

\* feedRoutes.ts:67 the message POST /posts verifies
postMessageToVerify(req) == req.content

\* feedRoutes.ts:101, 139 the message the like and repost routes verify
messageToVerify(postId, action) == postId \o action

Blank(req, field) ==
    CASE field = "author" -> [req EXCEPT !.author = NoAuthor]
      [] field = "content" -> [req EXCEPT !.content = ""]
      [] field = "signature" -> [req EXCEPT !.signature = NoSignature]
      [] field = "timestamp" -> [req EXCEPT !.timestamp = 0]
      [] OTHER -> req

\* the signatures a request may carry where m is the message its route
\* verifies and other a message it does not: by either wallet over m, by
\* the first over other, or no base64
SignatureValues(m, other) ==
    {sign(k, m) : k \in FeedKeys} \cup {sign("k1", other), Garbage}

\* a request with one of its fields missing
Incomplete(req, fields) ==
    {Blank(r, f) : r \in {req, [req EXCEPT !.signature = Garbage]}, f \in fields}

\* the bodies sent to POST /posts
PostRequests ==
    UNION {{Req("", toBase58("k1"), c, s, 1) :
               s \in SignatureValues(c, postMessageToSign(c, 1))}
           \cup Incomplete(Req("", toBase58("k1"), c, sign("k1", c), 1),
                           {"author", "content", "signature", "timestamp"}) :
           c \in FeedContents}

\* the requests sent to POST /posts/:postId/like and .../repost
EngagementRequests ==
    UNION {{Req(p, a, "", s, 1) :
               a \in AuthorValues,
               s \in SignatureValues(engagementMessageToSign(p, "like"),
                                     engagementMessageToSign(p, "repost"))}
           \cup Incomplete(Req(p, toBase58("k1"), "",
                               sign("k1", engagementMessageToSign(p, "like")), 1),
                           {"author", "signature", "timestamp"}) :
           p \in ServerPostIds}

FeedOnly == UNCHANGED <<connVars, keyVars, cacheVars, syncVars, cryptVars, initVars>>

\* feedRoutes.ts:59-69 POST /posts: the status it answers with
postPostsStatus(req) ==
    IF req.author = NoAuthor \/ req.content = "" \/ req.signature = NoSignature
       \/ req.timestamp = 0
    THEN 400
    ELSE IF ~verifySignature(postMessageToVerify(req), req.signature, req.author)
    THEN 401
    ELSE 201

\* feedRoutes.ts:71-81 the post it stores
newPost(posts, req) ==
    [id |-> NewPostId(posts), author |-> req.author, content |-> req.content,
     signature |-> req.signature, timestamp |-> req.timestamp,
     likesCount |-> 0, repostsCount |-> 0]

\* feedRoutes.ts:59-84 POST /posts
PostPosts(req, client) ==
    LET status == postPostsStatus(req)
    IN  /\ status = 201 => Len(serverPosts) < Cardinality(ServerPostIds)
        /\ serverPosts' = IF status = 201
                          THEN Append(serverPosts, newPost(serverPosts, req))
                          ELSE serverPosts
        /\ response' = Response("posts", status, req, client, <<>>)
        /\ UNCHANGED <<likes, reposts>>
        /\ FeedOnly

\* feedRoutes.ts:107, 145 the list never finds an earlier engagement
existingEngagementNever(list, postId, author) == FALSE

\* feedRoutes.ts:107, 145 find: an engagement of the author on the post
existingEngagement(list, postId, author) ==
    \E i \in DOMAIN list :
        list[i].postId = postId /\ strictEquals(list[i].author, author)

\* feedRoutes.ts:87-110, 125-148 the status the like and repost routes
\* answer with
engagementStatus(list, action, req) ==
    IF req.author = NoAuthor \/ req.signature = NoSignature \/ req.timestamp = 0
    THEN 400
    ELSE IF ~\E i \in DOMAIN serverPosts : serverPosts[i].id = req.postId
    THEN 404
    ELSE IF ~verifySignature(messageToVerify(req.postId, action), req.signature,
                             req.author)
    THEN 401
    ELSE IF existingEngagement(list, req.postId, req.author)
    THEN 409
    ELSE 201

\* feedRoutes.ts:112-119, 150-157 the engagement stored (its id is random
\* and read by nothing)
newEngagement(req) ==
    [postId |-> req.postId, author |-> req.author, signature |-> req.signature,
     timestamp |-> req.timestamp]

\* feedRoutes.ts:87-122 POST /posts/:postId/like
PostLike(req, client) ==
    LET status == engagementStatus(likes, "like", req)
    IN  /\ status = 201 => Len(likes) + Len(reposts) < MaxEngagements
        /\ likes' = IF status = 201 THEN Append(likes, newEngagement(req)) ELSE likes
        /\ response' = Response("like", status, req, client, <<>>)
        /\ UNCHANGED <<serverPosts, reposts>>
        /\ FeedOnly

\* feedRoutes.ts:125-160 POST /posts/:postId/repost
PostRepost(req, client) ==
    LET status == engagementStatus(reposts, "repost", req)
    IN  /\ status = 201 => Len(likes) + Len(reposts) < MaxEngagements
        /\ reposts' = IF status = 201 THEN Append(reposts, newEngagement(req)) ELSE reposts
        /\ response' = Response("repost", status, req, client, <<>>)
        /\ UNCHANGED <<serverPosts, likes>>
        /\ FeedOnly

\* feedRoutes.ts:50-55 the posts with their counts, newest first
enhancedPosts ==
    orderByDesc([i \in DOMAIN serverPosts |->
                    [serverPosts[i] EXCEPT
                        !.likesCount = Len(SelectSeq(likes,
                            LAMBDA l : l.postId = serverPosts[i].id)),
                        !.repostsCount = Len(SelectSeq(reposts,
                            LAMBDA r : r.postId = serverPosts[i].id))]],
                "timestamp")

\* feedRoutes.ts:48-56 GET /posts
GetPosts ==
    /\ response' = Response("getPosts", 200, NoReq, FALSE, enhancedPosts)
    /\ UNCHANGED <<serverPosts, likes, reposts>>
    /\ FeedOnly

\* any request to the three mutating routes
PostPostsRequest == \E req \in PostRequests : PostPosts(req, FALSE)
PostLikeRequest == \E req \in EngagementRequests : PostLike(req, FALSE)
PostRepostRequest == \E req \in EngagementRequests : PostRepost(req, FALSE)

\* part_002:82-128 handlePost of a connected wallet with content to post
HandleFeedPost ==
    \E k \in FeedKeys, content \in FeedContents :
        PostPosts(Req("", toBase58(k), content,
                      sign(k, postMessageToSign(content, 1)), 1), TRUE)

\* part_002:130-175 handleEngagement on a post of the list the screen
\* fetched
HandleEngagement ==
    \E k \in FeedKeys, i \in DOMAIN serverPosts :
        LET postId == serverPosts[i].id
        IN  \/ PostLike(Req(postId, toBase58(k), "",
                            sign(k, engagementMessageToSign(postId, "like")), 1), TRUE)
            \/ PostRepost(Req(postId, toBase58(k), "",
                              sign(k, engagementMessageToSign(postId, "repost")), 1), TRUE)

NextFeed ==
    \/ PostPostsRequest
    \/ PostLikeRequest
    \/ PostRepostRequest
    \/ GetPosts
    \/ HandleFeedPost
    \/ HandleEngagement

SpecFeed == Init /\ [][NextFeed]_vars

\* the request of a response went to one of the three mutating routes
Mutating(r) == r.route \in {"posts", "like", "repost"}

\* the message the route of a request is to verify: the content of a post,
\* the post id followed by the action of an engagement
CanonicalMessage(r) ==
    IF r.route = "posts" THEN r.req.content ELSE r.req.postId \o r.route

\* the signature of the request is the one the key of its author makes over
\* that message
SignedByAuthor(r) ==
    /\ r.req.author.key \in FeedKeys
    /\ r.req.signature = sign(r.req.author.key, CanonicalMessage(r))

\* a required field of the request is missing
MissingField(r) ==
    \/ r.req.author = NoAuthor
    \/ r.req.signature = NoSignature
    \/ r.req.timestamp = 0
    \/ r.route = "posts" /\ r.req.content = ""

\* the like or repost names a post the server does not hold
UnknownPost(r) ==
    /\ r.route \in {"like", "repost"}
    /\ \A i \in DOMAIN serverPosts : serverPosts[i].id # r.req.postId

\* C31 as stated: a mutating request whose signature does not verify
\* against its author's key for the canonical message is answered with 401
\* and leaves posts, likes and reposts unchanged
C31_BadSignatureIs401 ==
    [][(Mutating(response') /\ ~SignedByAuthor(response')) =>
          /\ response'.status = 401
          /\ UNCHANGED <<serverPosts, likes, reposts>>]_vars

\* C31: a mutating request whose signature does not verify against its
\* author's key for the message its route verifies leaves posts, likes and
\* reposts unchanged and is refused: with 400 when a required field is
\* missing, else with 404 when a like or repost names an unknown post, else
\* with 401
C31_BadSignatureRefused ==
    [][(Mutating(response') /\ ~SignedByAuthor(response')) =>
          /\ UNCHANGED <<serverPosts, likes, reposts>>
          /\ response'.status = IF MissingField(response') THEN 400
                                ELSE IF UnknownPost(response') THEN 404
                                ELSE 401]_vars

\* a like of a held post carrying the signature of another wallet was
\* answered with 401 while the server holds a like
C31_Witness ==
    /\ response.route = "like"
    /\ response.status = 401
    /\ response.req.author = toBase58("k1")
    /\ response.req.signature = sign("k2", "post1like")
    /\ Len(likes) > 0

\* C39: what the feed screen signs with the wallet's key and sends is
\* accepted by the server, for a new post, a like and a repost: the
\* signature is never the reason of a refusal
C39_ClientSignatureAccepted ==
    response.client => response.status \in {201, 409}

\* the keys of the authors of the engagements of a list with a post
EngagedKeys(list, postId) ==
    {list[i].author.key : i \in {j \in DOMAIN list : list[j].postId = postId}}

OnePerAuthor(list) ==
    \A i, j \in DOMAIN list :
        (list[i].postId = list[j].postId /\ list[i].author.key = list[j].author.key)
            => i = j

\* C40: the server holds at most one like and one repost per post and
\* author, and the counts GET /posts returns for a post are the numbers of
\* distinct authors who liked and reposted it
C40_OnePerPostAndAuthor ==
    /\ OnePerAuthor(likes)
    /\ OnePerAuthor(reposts)
    /\ response.route = "getPosts" =>
          \A i \in DOMAIN response.body :
              /\ response.body[i].likesCount
                     = Cardinality(EngagedKeys(likes, response.body[i].id))
              /\ response.body[i].repostsCount
                     = Cardinality(EngagedKeys(reposts, response.body[i].id))

====
